---- MODULE Spec2Model ----
(***************************************************************************)
(* A model of the fuguex-core emulator core: the permissioned flat memory  *)
(* (fugue-state/flat.rs), the chunked heap (fugue-state/chunked.rs), the   *)
(* paged memory and the composite p-code state (fuguex-state), and the     *)
(* concrete interpreter with its hooks driven by the machine               *)
(* (fuguex-concrete/interpreter.rs, fuguex-machine).                       *)
(*                                                                         *)
(* Each subsystem has its own specification over the shared variables:     *)
(*   SpecFlat       FlatState get/set and permission edits                 *)
(*   SpecChunkList  ChunkList allocate/deallocate/reallocate               *)
(*   SpecChunk      ChunkState allocate/reallocate/deallocate/set/get      *)
(*   SpecRealloc    the allocate, allocate, deallocate, reallocate run     *)
(*   SpecFork       PCodeState fork, child writes, restore                 *)
(*   SpecStep       Machine.step over one instruction with hooks           *)
(***************************************************************************)
EXTENDS Integers, Sequences, FiniteSets, TLC

VARIABLES
    flat,       \* SpecFlat: the FlatState under test
    flatRes,    \* SpecFlat: the last call and its result
    flatOps,    \* SpecFlat: number of calls made
    cl,         \* SpecChunkList: the ChunkList (a Vec<ChunkStatus>)
    clRes,      \* SpecChunkList: the last call and what it returned
    clOps,      \* SpecChunkList: number of calls made
    cs,         \* SpecChunk: the ChunkState (chunks, regions, backing)
    csRes,      \* SpecChunk: the last call and its result
    csOps,      \* SpecChunk: number of calls made
    scn,        \* SpecRealloc: heap size, the addresses A and B, the bytes saved from B
    parent,     \* SpecFork: the PCodeState that is forked
    child,      \* SpecFork: the fork
    forkRes,    \* SpecFork: phase, last call, writes made, the child before restore
    machine,    \* SpecStep: the interpreter's state and hooks, ignore_errors, steps made
    stepRes,    \* SpecStep: the last call, its outcome and the trace of the step
    stepState,  \* SpecBranch: the StepState under test (pcode and position)
    branchRes,  \* SpecBranch: the last call of branch, the position before it and its outcome
    cache,      \* SpecLift: the translator cache shared by the instances (address to StepState)
    emus,       \* SpecLift: the emulator instances: state, hooks, step state, where each is in lift
    runner,     \* SpecUntil: the Machine step_until runs on: state, hooks, the lifted code
    until,      \* SpecUntil: the call of step_until: the bound, the location, the steps made, what it returned
    paged,      \* SpecPaged: a PagedState with a Static segment and a Mapping segment
    pagedRes,   \* SpecPaged: the last access made through the PagedState and the fault it reported
    registry    \* SpecRegistry: the hooks of one ConcreteContext and the index kept for each insertion name

flatVars == <<flat, flatRes, flatOps>>

clVars == <<cl, clRes, clOps>>

csVars == <<cs, csRes, csOps>>

scnVars == <<scn>>

forkVars == <<parent, child, forkRes>>

stepVars == <<machine, stepRes>>

branchVars == <<stepState, branchRes>>

liftVars == <<cache, emus>>

untilVars == <<runner, until>>

pagedVars == <<paged, pagedRes>>

registryVars == <<registry>>

vars == <<flatVars, clVars, csVars, scnVars, forkVars, stepVars, branchVars, liftVars, untilVars, pagedVars, registryVars>>

\* the variables of a subsystem a specification does not exercise
FlatOthers == UNCHANGED <<clVars, csVars, scnVars, forkVars, stepVars, branchVars, liftVars, untilVars, pagedVars, registryVars>>

ClOthers == UNCHANGED <<flatVars, csVars, scnVars, forkVars, stepVars, branchVars, liftVars, untilVars, pagedVars, registryVars>>

CsOthers == UNCHANGED <<flatVars, clVars, forkVars, stepVars, branchVars, liftVars, untilVars, pagedVars, registryVars>>

ForkOthers == UNCHANGED <<flatVars, clVars, csVars, scnVars, stepVars, branchVars, liftVars, untilVars, pagedVars, registryVars>>

StepOthers == UNCHANGED <<flatVars, clVars, csVars, scnVars, forkVars, branchVars, liftVars, untilVars, pagedVars, registryVars>>

BranchOthers == UNCHANGED <<flatVars, clVars, csVars, scnVars, forkVars, stepVars, liftVars, untilVars, pagedVars, registryVars>>

LiftOthers == UNCHANGED <<flatVars, clVars, csVars, scnVars, forkVars, stepVars, branchVars, untilVars, pagedVars, registryVars>>

UntilOthers == UNCHANGED <<flatVars, clVars, csVars, scnVars, forkVars, stepVars, branchVars, liftVars, pagedVars, registryVars>>

PagedOthers == UNCHANGED <<flatVars, clVars, csVars, scnVars, forkVars, stepVars, branchVars, liftVars, untilVars, registryVars>>

RegistryOthers == UNCHANGED <<flatVars, clVars, csVars, scnVars, forkVars, stepVars, branchVars, liftVars, untilVars, pagedVars>>

FlatIdle == flat = 0 /\ flatRes = 0 /\ flatOps = 0

ClIdle == cl = 0 /\ clRes = 0 /\ clOps = 0

CsIdle == cs = 0 /\ csRes = 0 /\ csOps = 0 /\ scn = 0

ForkIdle == parent = 0 /\ child = 0 /\ forkRes = 0

StepIdle == machine = 0 /\ stepRes = 0

BranchIdle == stepState = 0 /\ branchRes = 0

LiftIdle == cache = 0 /\ emus = 0

UntilIdle == runner = 0 /\ until = 0

PagedIdle == paged = 0 /\ pagedRes = 0

RegistryIdle == registry = 0

(***************************************************************************)
(* Small helpers                                                           *)
(***************************************************************************)
Min(a, b) == IF a < b THEN a ELSE b

\* the element of a one-element set: Only({e : x \in {v}}) is e with x naming
\* the value of v, computed once
Only(S) == CHOOSE x \in S : TRUE

Byte == 0..255

\* the bytes of a sequence laid over a 0-based range starting at start
SeqAt(s, start, i) == s[(i - start) + 1]

(***************************************************************************)
(* fugue-state/src/flat.rs                                                 *)
(***************************************************************************)
BLOCK_SIZE == 64

\* size_of::<Block>() and size_of::<u64>(): both 8
BLOCK_WORD == 8

\* (size_of::<u64>() << 3) >> 1 : bytes described by one permission word
PERM_SCALE == 32

\* one byte's two permission bits sit at bit and bit + 1 of its word
PERM_READ_OFF == 1

PERM_WRITE_OFF == 0

PERM_READ_WRITE_OFF == 0

\* 0b11: both bits of one byte
PERM_BOTH == 3

\* one byte's share of PERM_READ_MASK (0xAAAA...) : the read bit only
PERM_READ_BIT == 2 ^ PERM_READ_OFF

\* one byte's share of PERM_READ_MASK | PERM_WRITE_MASK
PERM_READ_WRITE_BITS == PERM_BOTH

\* the check mask of is_marked/clear_byte/set_byte, shifted down to the byte's bits
PermCheck(access) ==
    CASE access = "ReadWrite" -> PERM_BOTH * (2 ^ PERM_READ_WRITE_OFF)
      [] access = "Read" -> 2 ^ PERM_READ_OFF
      [] OTHER -> 2 ^ PERM_WRITE_OFF

\* p & c on two-bit values
And2(p, c) ==
    (IF p % 2 = 1 /\ c % 2 = 1 THEN 1 ELSE 0)
    + 2 * (IF p \div 2 = 1 /\ c \div 2 = 1 THEN 1 ELSE 0)

\* p | c on two-bit values
Or2(p, c) ==
    (IF p % 2 = 1 \/ c % 2 = 1 THEN 1 ELSE 0)
    + 2 * (IF p \div 2 = 1 \/ c \div 2 = 1 THEN 1 ELSE 0)

\* Permissions::new_with: 1 + size / PERM_SCALE words, every byte pair = mask
PermissionsNewWith(size, mask) ==
    [a \in 0..((1 + size \div PERM_SCALE) * PERM_SCALE - 1) |-> mask]

PermissionsNew(size) == PermissionsNewWith(size, PERM_READ_WRITE_BITS)

IsMarked(perms, address, access) ==
    And2(perms[address], PermCheck(access)) = PermCheck(access)

AllMarked(perms, start, size, access) ==
    \A addr \in start..(start + size - 1) : IsMarked(perms, addr, access)

AllReadable(perms, start, size) == AllMarked(perms, start, size, "Read")

AllWritable(perms, start, size) == AllMarked(perms, start, size, "Write")

AllReadableAndWritable(perms, start, size) == AllMarked(perms, start, size, "ReadWrite")

ClearByte(perms, address, access) ==
    [perms EXCEPT ![address] = And2(@, PERM_READ_WRITE_BITS - PermCheck(access))]

SetByte(perms, address, access) ==
    [perms EXCEPT ![address] = Or2(@, PermCheck(access))]

ClearRegion(perms, start, size, access) ==
    [a \in DOMAIN perms |->
        IF a >= start /\ a < start + size
        THEN And2(perms[a], PERM_READ_WRITE_BITS - PermCheck(access))
        ELSE perms[a]]

SetRegion(perms, start, size, access) ==
    [a \in DOMAIN perms |->
        IF a >= start /\ a < start + size
        THEN Or2(perms[a], PermCheck(access))
        ELSE perms[a]]

\* Block::from(address), Block::index, Block::bit
BlockOf(offset) == offset \div BLOCK_SIZE

BlockIndex(block) == block \div BLOCK_WORD

BlockBit(block) == block % BLOCK_WORD

\* DirtyBacking::new: the index list is empty, the bitmap has
\* 1 + backing_size / 8 words; a word is modelled by the set of its set bits
DirtyNew(size) ==
    [indices |-> <<>>,
     bitsmap |-> [w \in 0..((1 + size \div BLOCK_SIZE) \div BLOCK_WORD) |-> {}]]

\* DirtyBacking::fork
DirtyFork(d) ==
    [indices |-> <<>>, bitsmap |-> [w \in DOMAIN d.bitsmap |-> {}]]

\* DirtyBacking::dirty
DirtyBlock(d, block) ==
    IF BlockBit(block) \notin d.bitsmap[BlockIndex(block)]
    THEN [indices |-> Append(d.indices, block),
          bitsmap |-> [d.bitsmap EXCEPT ![BlockIndex(block)] = @ \cup {BlockBit(block)}]]
    ELSE d

RECURSIVE DirtyBlocks(_, _, _)
DirtyBlocks(d, block, eblock) ==
    IF block > eblock THEN d
    ELSE DirtyBlocks(DirtyBlock(d, block), block + 1, eblock)

\* DirtyBacking::dirty_region: blocks of start ..= start + size
DirtyRegion(d, start, size) ==
    DirtyBlocks(d, BlockOf(start), BlockOf(start + size))

\* FlatState::new / read_only / from_vec
FlatNew(size) ==
    [backing |-> [i \in 0..(size - 1) |-> 0],
     dirty |-> DirtyNew(size),
     permissions |-> PermissionsNew(size)]

FlatReadOnly(size) ==
    [backing |-> [i \in 0..(size - 1) |-> 0],
     dirty |-> DirtyNew(size),
     permissions |-> PermissionsNewWith(size, PERM_READ_BIT)]

FlatLen(f) == Cardinality(DOMAIN f.backing)

\* usize::MAX, with usize narrowed to 30 bits
UsizeMax == 1073741823

\* the bounds test shared by get/view/view_mut/set/copy:
\* start > len || start.checked_add(size).is_none() || end > len
FlatOOB(f, start, size) ==
    \/ start > FlatLen(f)
    \/ start + size > UsizeMax
    \/ start + size > FlatLen(f)

Ok(f, out) == [ok |-> TRUE, err |-> "none", st |-> f, out |-> out]

Err(f, e) == [ok |-> FALSE, err |-> e, st |-> f, out |-> <<>>]

\* FlatState::get_bytes: buf is the caller's buffer, filled only on success
FlatGetBytes(f, start, buf) ==
    IF FlatOOB(f, start, Len(buf)) THEN [Err(f, "OOBRead") EXCEPT !.out = buf]
    ELSE IF ~AllReadable(f.permissions, start, Len(buf))
         THEN [Err(f, "AccessViolationRead") EXCEPT !.out = buf]
    ELSE Ok(f, [i \in 1..Len(buf) |-> f.backing[start + i - 1]])

\* FlatState::view_bytes
FlatViewBytes(f, start, size) ==
    IF FlatOOB(f, start, size) THEN Err(f, "OOBRead")
    ELSE IF ~AllReadable(f.permissions, start, size) THEN Err(f, "AccessViolationRead")
    ELSE Ok(f, [i \in 1..size |-> f.backing[start + i - 1]])

\* FlatState::set_bytes
FlatSetBytesNoCheck(f, start, bytes) ==
    IF FlatOOB(f, start, Len(bytes)) THEN Err(f, "OOBWrite")
    ELSE Ok([f EXCEPT
                !.backing = [i \in DOMAIN f.backing |->
                    IF i >= start /\ i < start + Len(bytes)
                    THEN SeqAt(bytes, start, i) ELSE f.backing[i]],
                !.dirty = DirtyRegion(f.dirty, start, Len(bytes))], <<>>)

FlatSetBytes(f, start, bytes) ==
    IF FlatOOB(f, start, Len(bytes)) THEN Err(f, "OOBWrite")
    ELSE IF ~AllWritable(f.permissions, start, Len(bytes)) THEN Err(f, "AccessViolationWrite")
    ELSE Ok([f EXCEPT
                !.backing = [i \in DOMAIN f.backing |->
                    IF i >= start /\ i < start + Len(bytes)
                    THEN SeqAt(bytes, start, i) ELSE f.backing[i]],
                !.dirty = DirtyRegion(f.dirty, start, Len(bytes))], <<>>)

\* FlatState::view_bytes_mut followed by the caller storing bytes in the view
FlatViewBytesMut(f, start, bytes) ==
    IF FlatOOB(f, start, Len(bytes)) THEN Err(f, "OOBRead")
    ELSE IF ~AllReadableAndWritable(f.permissions, start, Len(bytes))
         THEN Err(f, "AccessViolationReadWrite")
    ELSE Ok([f EXCEPT
                !.backing = [i \in DOMAIN f.backing |->
                    IF i >= start /\ i < start + Len(bytes)
                    THEN SeqAt(bytes, start, i) ELSE f.backing[i]],
                !.dirty = DirtyRegion(f.dirty, start, Len(bytes))], <<>>)

\* FlatState::copy_bytes that marks the destination dirty before it has tested
\* that the destination can be written
FlatCopyBytesDirtyFirst(f, soff, doff, size) ==
    IF FlatOOB(f, soff, size) THEN Err(f, "OOBRead")
    ELSE IF ~AllReadable(f.permissions, soff, size) THEN Err(f, "AccessViolationRead")
    ELSE IF FlatOOB(f, doff, size) THEN Err(f, "OOBWrite")
    ELSE IF ~AllWritable(f.permissions, doff, size)
         THEN Err([f EXCEPT !.dirty = DirtyRegion(f.dirty, doff, size)], "AccessViolationWrite")
    ELSE Ok([f EXCEPT
                !.backing = [i \in DOMAIN f.backing |->
                    IF i >= doff /\ i < doff + size
                    THEN f.backing[soff + (i - doff)] ELSE f.backing[i]],
                !.dirty = DirtyRegion(f.dirty, doff, size)], <<>>)

\* FlatState::copy_bytes
FlatCopyBytes(f, soff, doff, size) ==
    IF FlatOOB(f, soff, size) THEN Err(f, "OOBRead")
    ELSE IF ~AllReadable(f.permissions, soff, size) THEN Err(f, "AccessViolationRead")
    ELSE IF FlatOOB(f, doff, size) THEN Err(f, "OOBWrite")
    ELSE IF ~AllWritable(f.permissions, doff, size) THEN Err(f, "AccessViolationWrite")
    ELSE Ok([f EXCEPT
                !.backing = [i \in DOMAIN f.backing |->
                    IF i >= doff /\ i < doff + size
                    THEN f.backing[soff + (i - doff)] ELSE f.backing[i]],
                !.dirty = DirtyRegion(f.dirty, doff, size)], <<>>)

\* FlatState::fork
FlatFork(f) ==
    [backing |-> f.backing, dirty |-> DirtyFork(f.dirty), permissions |-> f.permissions]

\* the bytes restore copies for one dirty block: start .. min(len, end)
BlockCovers(f, block, i) ==
    i >= block * BLOCK_SIZE /\ i < Min(FlatLen(f), (block + 1) * BLOCK_SIZE)

FlatRestoreNoPermissions(f, other) ==
    [backing |-> [i \in DOMAIN f.backing |->
        IF \E k \in DOMAIN f.dirty.indices : BlockCovers(f, f.dirty.indices[k], i)
        THEN other.backing[i] ELSE f.backing[i]],
     dirty |-> [indices |-> f.dirty.indices,
                bitsmap |-> [w \in DOMAIN f.dirty.bitsmap |->
                    IF \E k \in DOMAIN f.dirty.indices : BlockIndex(f.dirty.indices[k]) = w
                    THEN {} ELSE f.dirty.bitsmap[w]]],
     permissions |-> f.permissions]

\* FlatState::restore: every block of the index list is copied from other and
\* its bitmap word zeroed; the index list itself is left as it is
FlatRestore(f, other) ==
    [backing |-> [i \in DOMAIN f.backing |->
        IF \E k \in DOMAIN f.dirty.indices : BlockCovers(f, f.dirty.indices[k], i)
        THEN other.backing[i] ELSE f.backing[i]],
     dirty |-> [indices |-> f.dirty.indices,
                bitsmap |-> [w \in DOMAIN f.dirty.bitsmap |->
                    IF \E k \in DOMAIN f.dirty.indices : BlockIndex(f.dirty.indices[k]) = w
                    THEN {} ELSE f.dirty.bitsmap[w]]],
     permissions |-> other.permissions]

(***************************************************************************)
(* SpecFlat: one FlatState, written and read at chosen offsets             *)
(***************************************************************************)
\* bytes of the flat memory under test: one full dirty block and a partial one
FlatSize == 66

\* calls made in one run
MaxFlatOps == 2

\* lengths of the byte strings passed to set/get
FlatLens == {0, 1, 2}

\* byte values written (0xDE, 0xAD)
ByteVals == {222, 173}

\* what a caller's read buffer holds before the call
\* offsets tried: the start, a block boundary, the end, and past the end
FlatAddrs == {0, BLOCK_SIZE - 1, FlatSize - 2, FlatSize - 1, FlatSize, FlatSize + 1}

ByteSeqs(lens) == UNION {[1..k -> ByteVals] : k \in lens}

Buffer(n) == [i \in 1..n |-> 255]

InitFlat ==
    /\ ClIdle /\ CsIdle /\ ForkIdle /\ StepIdle /\ BranchIdle /\ LiftIdle /\ UntilIdle /\ PagedIdle /\ RegistryIdle
    /\ flat \in {FlatNew(FlatSize), FlatReadOnly(FlatSize)}
    /\ flatRes = [op |-> "new", addr |-> 0, bytes |-> <<>>, ok |-> TRUE, err |-> "none",
                  out |-> <<>>, pre |-> flat.backing, size |-> 0, to |-> 0]
    /\ flatOps = 0

\* State::set_values on the FlatState
FlatSet(addr, bytes) ==
    /\ flatOps < MaxFlatOps
    /\ LET r == FlatSetBytes(flat, addr, bytes) IN
        /\ flat' = r.st
        /\ flatRes' = [op |-> "set", addr |-> addr, bytes |-> bytes, ok |-> r.ok,
                       err |-> r.err, out |-> <<>>, pre |-> flat.backing,
                       size |-> Len(bytes), to |-> 0]
    /\ flatOps' = flatOps + 1
    /\ FlatOthers

\* State::get_values on the FlatState
FlatGet(addr, n) ==
    /\ flatOps < MaxFlatOps
    /\ LET r == FlatGetBytes(flat, addr, Buffer(n)) IN
        /\ flat' = r.st
        /\ flatRes' = [op |-> "get", addr |-> addr, bytes |-> Buffer(n), ok |-> r.ok,
                       err |-> r.err, out |-> r.out, pre |-> flat.backing,
                       size |-> n, to |-> 0]
    /\ flatOps' = flatOps + 1
    /\ FlatOthers

\* permissions_mut().clear_byte / set_byte
FlatPermEdit(addr, access, set) ==
    /\ flatOps < MaxFlatOps
    /\ addr < FlatSize
    /\ flat' = [flat EXCEPT !.permissions =
                    IF set THEN SetByte(@, addr, access) ELSE ClearByte(@, addr, access)]
    /\ flatRes' = [op |-> "perm", addr |-> addr, bytes |-> <<>>, ok |-> TRUE, err |-> "none",
                   out |-> <<>>, pre |-> flat.backing, size |-> 1, to |-> 0]
    /\ flatOps' = flatOps + 1
    /\ FlatOthers

NextFlat ==
    \/ \E addr \in FlatAddrs, bytes \in ByteSeqs(FlatLens) : FlatSet(addr, bytes)
    \/ \E addr \in FlatAddrs, n \in FlatLens : FlatGet(addr, n)
    \/ \E addr \in FlatAddrs, access \in {"Read", "Write"}, set \in BOOLEAN :
          FlatPermEdit(addr, access, set)

SpecFlat == InitFlat /\ [][NextFlat]_vars

\* the bytes of [addr, addr + n) that are outside the backing or lack the bit
BadBytes(f, addr, n, bit) ==
    {i \in addr..(addr + n - 1) : i >= FlatLen(f) \/ (f.permissions[i] \div bit) % 2 = 0}

MaxFlatCalls == 1

\* the sizes asked of view and copy: those of set/get and the largest usize
FlatSizes == FlatLens \cup {UsizeMax}

\* FlatState::from_vec
FlatFromVec(bytes) ==
    [backing |-> bytes,
     dirty |-> DirtyNew(Cardinality(DOMAIN bytes)),
     permissions |-> PermissionsNew(Cardinality(DOMAIN bytes))]

\* FlatState::new, read_only or from_vec, then at most one clear_byte through
\* permissions_mut
InitFlatCalls ==
    /\ ClIdle /\ CsIdle /\ ForkIdle /\ StepIdle /\ BranchIdle /\ LiftIdle /\ UntilIdle /\ RegistryIdle
    /\ PagedIdle /\ RegistryIdle
    /\ \E f \in {FlatNew(FlatSize), FlatReadOnly(FlatSize),
                  FlatFromVec([i \in 0..(FlatSize - 1) |-> i + 1])},
          edit \in {"none", "Read", "Write"} :
            flat = IF edit = "none" THEN f
                   ELSE [f EXCEPT !.permissions =
                            ClearByte(@, IF edit = "Read" THEN BLOCK_SIZE - 1 ELSE 0, edit)]
    /\ flatRes = [op |-> "new", addr |-> 0, bytes |-> <<>>, ok |-> TRUE, err |-> "none",
                  out |-> <<>>, pre |-> flat.backing, size |-> 0, to |-> 0]
    /\ flatOps = 0

\* State::set_values on the FlatState
CallSet(addr, bytes) == flatOps < MaxFlatCalls /\ FlatSet(addr, bytes)

\* State::get_values on the FlatState
CallGet(addr, n) == flatOps < MaxFlatCalls /\ FlatGet(addr, n)

\* State::view_values on the FlatState
CallView(addr, n) ==
    /\ flatOps < MaxFlatCalls
    /\ LET r == FlatViewBytes(flat, addr, n) IN
        /\ flat' = r.st
        /\ flatRes' = [op |-> "view", addr |-> addr, bytes |-> <<>>, ok |-> r.ok,
                       err |-> r.err, out |-> r.out, pre |-> flat.backing,
                       size |-> n, to |-> 0]
    /\ flatOps' = flatOps + 1
    /\ FlatOthers

\* State::view_values_mut on the FlatState, the caller then storing bytes in the
\* view
CallViewMut(addr, bytes) ==
    /\ flatOps < MaxFlatCalls
    /\ LET r == FlatViewBytesMut(flat, addr, bytes) IN
        /\ flat' = r.st
        /\ flatRes' = [op |-> "view_mut", addr |-> addr, bytes |-> bytes, ok |-> r.ok,
                       err |-> r.err, out |-> <<>>, pre |-> flat.backing,
                       size |-> Len(bytes), to |-> 0]
    /\ flatOps' = flatOps + 1
    /\ FlatOthers

\* State::copy_values on the FlatState
CallCopy(from, to, n) ==
    /\ flatOps < MaxFlatCalls
    /\ LET r == FlatCopyBytes(flat, from, to, n) IN
        /\ flat' = r.st
        /\ flatRes' = [op |-> "copy", addr |-> from, bytes |-> <<>>, ok |-> r.ok,
                       err |-> r.err, out |-> <<>>, pre |-> flat.backing,
                       size |-> n, to |-> to]
    /\ flatOps' = flatOps + 1
    /\ FlatOthers

NextFlatCalls ==
    \/ \E addr \in FlatAddrs, bytes \in ByteSeqs(FlatLens) : CallSet(addr, bytes)
    \/ \E addr \in FlatAddrs, n \in FlatLens : CallGet(addr, n)
    \/ \E addr \in FlatAddrs, n \in FlatSizes : CallView(addr, n)
    \/ \E addr \in FlatAddrs, bytes \in ByteSeqs(FlatLens) : CallViewMut(addr, bytes)
    \/ \E from \in FlatAddrs, to \in FlatAddrs, n \in FlatSizes : CallCopy(from, to, n)

SpecFlatCalls == InitFlatCalls /\ [][NextFlatCalls]_vars

\* the range [addr, addr + n) leaves the backing or holds a byte without the bit
Faulty(f, addr, n, bit) == addr + n > FlatLen(f) \/ BadBytes(f, addr, n, bit) # {}

\* the call just made was one FlatState must reject
Rejected ==
    LET op == flatRes'.op
        a == flatRes'.addr
        n == flatRes'.size
    IN  CASE op = "set" -> Faulty(flat, a, n, 1)
          [] op \in {"get", "view"} -> Faulty(flat, a, n, 2)
          [] op = "view_mut" -> Faulty(flat, a, n, 1) \/ Faulty(flat, a, n, 2)
          [] op = "copy" -> Faulty(flat, a, n, 2) \/ Faulty(flat, flatRes'.to, n, 1)
          [] OTHER -> FALSE

\* C19: get, set, view, view_mut and copy_within return an error exactly when
\* the range is out of bounds (also when start + length overflows) or a byte
\* lacks a needed permission, and then leave backing, permissions and dirty set
\* as they were; on a 4096-byte R+W memory set(0x1000, [0]) yields OOBWrite
C19_FailsCleanly ==
    [][/\ flatRes'.op \in {"set", "get", "view", "view_mut", "copy"} =>
            /\ Rejected <=> ~flatRes'.ok
            /\ ~flatRes'.ok => flat' = flat
       /\ flatOps = 0 => FlatSetBytes(FlatNew(4096), 4096, <<0>>).err = "OOBWrite"]_vars

\* a two-byte copy inside the backing failed for want of the write permission
C19_Witness ==
    /\ flatRes.op = "copy" /\ ~flatRes.ok
    /\ flatRes.err = "AccessViolationWrite"
    /\ flatRes.size = 2
    /\ flatRes.to + 2 <= FlatLen(flat)
    /\ flat.backing[flatRes.addr] # flat.backing[flatRes.to]

(***************************************************************************)
(* fugue-state/src/chunked.rs: ChunkList                                   *)
(***************************************************************************)
\* ChunkStatus::free / ChunkStatus::taken
ChunkFree(offset, size) == [taken |-> FALSE, offset |-> offset, size |-> size]

ChunkTaken(offset, size) == [taken |-> TRUE, offset |-> offset, size |-> size]

\* Vec<ChunkStatus> with Rust's 0-based indices
At(l, i) == l[i + 1]

SetAt(l, i, x) == [l EXCEPT ![i + 1] = x]

\* Vec::insert
InsertAt(l, i, x) == SubSeq(l, 1, i) \o <<x>> \o SubSeq(l, i + 1, Len(l))

\* Vec::remove (the caller tests i < len first: remove panics otherwise)
RemoveAt(l, i) == SubSeq(l, 1, i) \o SubSeq(l, i + 2, Len(l))

SetMin(S) == CHOOSE x \in S : \A y \in S : x <= y

\* ChunkList::new
ChunkListNew(size) == <<ChunkFree(0, size)>>

\* what a ChunkList call returns: the list afterwards, Some/None, the returned
\* pair, and whether the call panicked (an out-of-range Vec::remove)
ClSome(l, offset, old) == [chunks |-> l, some |-> TRUE, offset |-> offset, old |-> old, panic |-> FALSE]

ClNone(l) == [chunks |-> l, some |-> FALSE, offset |-> 0, old |-> 0, panic |-> FALSE]

ClPanic(l) == [chunks |-> l, some |-> FALSE, offset |-> 0, old |-> 0, panic |-> TRUE]

\* ChunkList::allocate: first fit
ChunkListAllocate(l, size) ==
    LET fits == {i \in 0..(Len(l) - 1) : ~At(l, i).taken /\ At(l, i).size >= size}
    IN  IF fits = {} THEN ClNone(l)
        ELSE LET i == SetMin(fits)
                 offset == At(l, i).offset
                 free_size == At(l, i).size
             IN  IF free_size = size
                 THEN ClSome(SetAt(l, i, ChunkTaken(offset, size)), offset, 0)
                 ELSE ClSome(InsertAt(SetAt(l, i, ChunkTaken(offset, size)), i + 1,
                                      ChunkFree(offset + size, free_size - size)), offset, 0)

\* ChunkList::deallocate
ChunkListDeallocate(l, offset) ==
    LET hit == {i \in 0..(Len(l) - 1) : At(l, i).taken /\ At(l, i).offset = offset}
    IN  IF hit = {} THEN ClNone(l)
        ELSE LET i == SetMin(hit)
                 old_size == At(l, i).size
                 up == i < Len(l) - 1 /\ ~At(l, i + 1).taken
                 size1 == old_size + (IF up THEN At(l, i + 1).size ELSE 0)
                 l1 == IF up THEN RemoveAt(l, i + 1) ELSE l
                 down == i > 0 /\ ~At(l1, i - 1).taken
                 offset2 == IF down THEN At(l1, i - 1).offset ELSE offset
                 size2 == size1 + (IF down THEN At(l1, i - 1).size ELSE 0)
                 l2 == IF down THEN RemoveAt(l1, i) ELSE l1
                 spos == IF down THEN i - 1 ELSE i
             IN  ClSome(SetAt(l2, spos, ChunkFree(offset2, size2)), offset, old_size)

\* the tail of ChunkList::reallocate ("all else fails"): allocate, then
\* deallocate(offset) with offset as the merge attempts left it
ReallocateFallback(l, offset, new_size, old_size) ==
    LET a == ChunkListAllocate(l, new_size)
    IN  IF a.some
        THEN ClSome(ChunkListDeallocate(a.chunks, offset).chunks, a.offset, old_size)
        ELSE ClNone(l)

\* the left-neighbour attempt of ChunkList::reallocate; size is the chunk plus
\* its free right neighbour (if any), which did not suffice
ReallocateLeft(l, i, offset, size, new_size, old_size) ==
    LET down == i > 0 /\ ~At(l, i - 1).taken
        offset2 == IF down THEN At(l, i - 1).offset ELSE offset
        size2 == size + (IF down THEN At(l, i - 1).size ELSE 0)
        spos == IF down THEN i - 1 ELSE i
    IN  IF size2 > new_size
        THEN LET l1 == SetAt(SetAt(l, spos, ChunkTaken(offset2, new_size)), spos + 1,
                             ChunkFree(offset2 + new_size, size2 - new_size))
             IN  IF i + 1 < Len(l1)
                 THEN ClSome(RemoveAt(l1, i + 1), offset2, old_size)
                 ELSE ClPanic(l1)
        ELSE IF size2 = new_size
        THEN LET l1 == RemoveAt(SetAt(l, spos, ChunkTaken(offset2, new_size)), i)
             IN  IF i + 1 < Len(l1)
                 THEN ClSome(RemoveAt(l1, i + 1), offset2, old_size)
                 ELSE ClPanic(l1)
        ELSE ReallocateFallback(l, offset2, new_size, old_size)

\* ChunkList::reallocate
ChunkListReallocate(l, offset, new_size) ==
    LET hit == {i \in 0..(Len(l) - 1) : At(l, i).taken /\ At(l, i).offset = offset}
    IN  IF hit = {} THEN ClNone(l)
        ELSE LET i == SetMin(hit)
                 old_size == At(l, i).size
                 up == i < Len(l) - 1 /\ ~At(l, i + 1).taken
             IN  IF new_size = old_size THEN ClSome(l, offset, old_size)
                 ELSE IF new_size < old_size
                 THEN LET l1 == SetAt(l, i, ChunkTaken(offset, new_size))
                          diff == old_size - new_size
                      IN  IF up
                          THEN ClSome(SetAt(l1, i + 1,
                                   ChunkFree(At(l1, i + 1).offset - diff, At(l1, i + 1).size + diff)),
                                   offset, old_size)
                          ELSE ClSome(InsertAt(l1, i + 1, ChunkFree(offset + new_size, diff)),
                                   offset, old_size)
                 ELSE LET size == old_size + (IF up THEN At(l, i + 1).size ELSE 0)
                          epos == IF up THEN i + 1 ELSE i
                      IN  IF size > new_size
                          THEN ClSome(SetAt(SetAt(l, i, ChunkTaken(offset, new_size)), epos,
                                   ChunkFree(offset + new_size, size - new_size)), offset, old_size)
                          ELSE IF size = new_size
                          THEN ClSome(RemoveAt(SetAt(l, i, ChunkTaken(offset, new_size)), epos),
                                   offset, old_size)
                          ELSE ReallocateLeft(l, i, offset, size, new_size, old_size)

(***************************************************************************)
(* SpecChunkList: allocate / deallocate / reallocate on one ChunkList      *)
(***************************************************************************)
\* bytes managed by the list under test
ListSize == 6

\* calls made in one run
MaxListOps == 5

\* sizes asked for: ChunkState always passes its size + 1, so never 0
ListSizes == 1..ListSize

InitChunkList ==
    /\ FlatIdle /\ CsIdle /\ ForkIdle /\ StepIdle /\ BranchIdle /\ LiftIdle /\ UntilIdle /\ PagedIdle /\ RegistryIdle
    /\ cl = ChunkListNew(ListSize)
    /\ clRes = [op |-> "new", some |-> TRUE, offset |-> 0, old |-> 0, panic |-> FALSE]
    /\ clOps = 0

ClStep(op, r) ==
    /\ cl' = r.chunks
    /\ clRes' = [op |-> op, some |-> r.some, offset |-> r.offset, old |-> r.old, panic |-> r.panic]
    /\ clOps' = clOps + 1
    /\ ClOthers

\* a panic unwinds out of the allocator: no further call is made on the list
ClLive == clOps < MaxListOps /\ ~clRes.panic

ClAllocate(n) == ClLive /\ ClStep("allocate", ChunkListAllocate(cl, n))

ClDeallocate(off) == ClLive /\ ClStep("deallocate", ChunkListDeallocate(cl, off))

ClReallocate(off, n) == ClLive /\ ClStep("reallocate", ChunkListReallocate(cl, off, n))

NextChunkList ==
    \/ \E n \in ListSizes : ClAllocate(n)
    \/ \E off \in 0..(ListSize - 1) : ClDeallocate(off)
    \/ \E off \in 0..(ListSize - 1), n \in ListSizes : ClReallocate(off, n)

SpecChunkList == InitChunkList /\ [][NextChunkList]_vars

\* C2: after any sequence of allocate / deallocate / reallocate calls that
\* returned, the chunks start at 0, each begins where the previous one ends,
\* offsets strictly increase, they end at N, and no two neighbours are both Free.
C2_Partition ==
    ~clRes.panic =>
        /\ Len(cl) >= 1
        /\ cl[1].offset = 0
        /\ cl[Len(cl)].offset + cl[Len(cl)].size = ListSize
        /\ \A k \in 1..(Len(cl) - 1) :
            /\ cl[k].offset < cl[k + 1].offset
            /\ cl[k].offset + cl[k].size = cl[k + 1].offset
            /\ cl[k].taken \/ cl[k + 1].taken

\* the chunk of list l that holds byte b is a Free one
FreeAt(l, b) ==
    \E k \in 1..Len(l) : ~l[k].taken /\ l[k].offset <= b /\ b < l[k].offset + l[k].size

\* the Taken chunk at old_off cannot grow to new_n in place: with its free
\* right and left neighbours it is still smaller than new_n
CannotGrow(l, old_off, new_n) ==
    \E i \in 0..(Len(l) - 1) :
        /\ At(l, i).taken /\ At(l, i).offset = old_off
        /\ \A j \in 0..(i - 1) : ~(At(l, j).taken /\ At(l, j).offset = old_off)
        /\ At(l, i).size
             + (IF i < Len(l) - 1 /\ ~At(l, i + 1).taken THEN At(l, i + 1).size ELSE 0)
             + (IF i > 0 /\ ~At(l, i - 1).taken THEN At(l, i - 1).size ELSE 0) < new_n

SizeAt(l, old_off) ==
    (CHOOSE c \in {l[k] : k \in 1..Len(l)} : c.taken /\ c.offset = old_off).size

\* a free chunk of list l can hold new_n
HasRoom(l, new_n) == \E k \in 1..Len(l) : ~l[k].taken /\ l[k].size >= new_n

\* what reallocate(old_off, new_n) leaves when the chunk cannot grow in place
Relocated(old_off, new_n) ==
    IF HasRoom(cl, new_n)
    THEN /\ clRes'.some /\ clRes'.old = SizeAt(cl, old_off)
         /\ \E k \in 1..Len(cl') : cl'[k] = ChunkTaken(clRes'.offset, new_n)
         /\ \A b \in old_off..(old_off + SizeAt(cl, old_off) - 1) : FreeAt(cl', b)
    ELSE ~clRes'.some /\ cl' = cl

\* C27: when reallocate(old_off, new_n) cannot grow the chunk in place (neither
\* the right nor the left free neighbour suffices), it allocates a chunk of new_n
\* and deallocates the chunk at old_off: on success it returns (new_off,
\* old_size), the chunk at new_off is Taken with size new_n and the chunk
\* formerly at old_off is Free; if no free chunk can hold new_n it returns
\* no-space and the list is unchanged
C27_FallbackFrees ==
    [][\A old_off \in 0..(ListSize - 1), new_n \in ListSizes :
           (ClReallocate(old_off, new_n) /\ CannotGrow(cl, old_off, new_n))
               => Relocated(old_off, new_n)]_vars

(***************************************************************************)
(* fugue-state/src/chunked.rs: ChunkState                                  *)
(***************************************************************************)
\* ChunkState::new: regions are kept as the set of their <<first, last>> pairs
ChunkStateNew(size) ==
    [chunks |-> ChunkListNew(size), regions |-> {}, backing |-> FlatReadOnly(size)]

\* what a ChunkState call returns: Ok/Err, the state the call leaves behind,
\* the returned address or bytes, and whether the call panicked
HeapOk(st, ret) == [ok |-> TRUE, err |-> "none", st |-> st, ret |-> ret, panic |-> FALSE]

HeapErr(st, e) == [ok |-> FALSE, err |-> e, st |-> st, ret |-> 0, panic |-> FALSE]

HeapPanic(st) == [ok |-> FALSE, err |-> "panic", st |-> st, ret |-> 0, panic |-> TRUE]

\* IntervalSet::find_all: the regions that overlap [lo, hi]
FindAll(regions, lo, hi) == {r \in regions : r[1] <= hi /\ lo <= r[2]}

\* the permission updates every (re)allocation makes: R/W on the user bytes,
\* write cleared on the red-zone byte
WithRedZone(perms, offset, size) ==
    ClearByte(SetRegion(perms, offset, size, "ReadWrite"), offset + size, "Write")

\* ChunkState::allocate (allocate_with and an initializer that stores nothing)
ChunkAllocate(base, st, size) ==
    Only({
        IF ~a.some THEN HeapErr(st, "NotEnoughFreeSpace")
        ELSE Only({
            Only({
                IF ~view.ok THEN HeapErr(st1, view.err)
                ELSE HeapOk([st1 EXCEPT !.backing = view.st], base + a.offset)
                : view \in {FlatViewBytesMut(st1.backing, a.offset,
                                [i \in 1..size |-> st1.backing.backing[a.offset + i - 1]])} })
            : st1 \in {[chunks |-> a.chunks,
                        regions |-> st.regions \cup
                            {<<base + a.offset, base + a.offset + size - 1>>},
                        backing |-> [st.backing EXCEPT
                            !.permissions = WithRedZone(st.backing.permissions, a.offset, size)]]} })
        : a \in {ChunkListAllocate(st.chunks, size + 1)} })

ChunkReallocateAtNoCopy(base, st, region, address, size) ==
    LET old_offset == address - base
        old_size == region[2] - region[1] + 1
        r == ChunkListReallocate(st.chunks, old_offset, size + 1)
        new_address == base + r.offset
        st1 == [st EXCEPT !.chunks = r.chunks,
                          !.backing.permissions =
                              WithRedZone(st.backing.permissions, r.offset, size)]
        st2 == IF old_offset # r.offset
               THEN [st1 EXCEPT !.backing.permissions =
                        ClearRegion(st1.backing.permissions, old_offset, old_size, "Write")]
               ELSE st1
    IN  IF region[1] # address THEN HeapErr(st, "ReallocateUnmanaged")
        ELSE IF ~AllReadable(st.backing.permissions, old_offset, old_size)
        THEN HeapErr(st, "AccessViolationRead")
        ELSE IF r.panic THEN HeapPanic([st EXCEPT !.chunks = r.chunks])
        ELSE IF ~r.some THEN HeapErr(st, "NotEnoughFreeSpace")
        ELSE HeapOk([st2 EXCEPT !.regions = (st.regions \ {region})
                         \cup {<<new_address, new_address + size - 1>>}], new_address)

\* ChunkState::reallocate, for the region that regions.find(address) returned
ChunkReallocateAt(base, st, region, address, size) ==
    LET old_offset == address - base
        old_size == region[2] - region[1] + 1
        r == ChunkListReallocate(st.chunks, old_offset, size + 1)
        new_address == base + r.offset
        st1 == [st EXCEPT !.chunks = r.chunks,
                          !.backing.permissions =
                              WithRedZone(st.backing.permissions, r.offset, size)]
        cp == FlatCopyBytes(st1.backing, old_offset, r.offset, old_size)
        st2 == IF old_offset # r.offset
               THEN [st1 EXCEPT !.backing = [cp.st EXCEPT !.permissions =
                        ClearRegion(cp.st.permissions, old_offset, old_size, "Write")]]
               ELSE st1
    IN  IF region[1] # address THEN HeapErr(st, "ReallocateUnmanaged")
        ELSE IF ~AllReadable(st.backing.permissions, old_offset, old_size)
        THEN HeapErr(st, "AccessViolationRead")
        ELSE IF r.panic THEN HeapPanic([st EXCEPT !.chunks = r.chunks])
        ELSE IF ~r.some THEN HeapErr(st, "NotEnoughFreeSpace")
        ELSE IF old_offset # r.offset /\ ~cp.ok THEN HeapErr(st1, cp.err)
        ELSE HeapOk([st2 EXCEPT !.regions = (st.regions \ {region})
                         \cup {<<new_address, new_address + size - 1>>}], new_address)

\* ChunkState::deallocate, for the region that regions.find(address) returned
ChunkDeallocateAt(base, st, region, address) ==
    LET offset == address - base
        d == ChunkListDeallocate(st.chunks, offset)
        size == 1 + (region[2] - region[1])
    IN  IF region[1] # address THEN HeapErr(st, "FreeUnmanaged")
        ELSE IF ~d.some THEN HeapErr(st, "FreeUnmanaged")
        ELSE HeapOk([chunks |-> d.chunks,
                     regions |-> st.regions \ {region},
                     backing |-> [st.backing EXCEPT !.permissions =
                         ClearRegion(st.backing.permissions, offset, size, "Write")]], 0)

\* ChunkState::translate_checked
TranslateChecked(base, st, address, size) ==
    LET found == FindAll(st.regions, address, address + size - 1)
    IN  IF found = {} THEN HeapErr(st, "AccessUnmanaged")
        ELSE IF Cardinality(found) > 1 THEN HeapErr(st, "HeapOverflow")
        ELSE HeapOk(st, address - base)

\* ChunkState::set_values
ChunkSetValues(base, st, address, bytes) ==
    LET t == TranslateChecked(base, st, address, Len(bytes))
        w == FlatSetBytes(st.backing, t.ret, bytes)
    IN  IF ~t.ok THEN t
        ELSE IF ~w.ok THEN HeapErr(st, w.err)
        ELSE HeapOk([st EXCEPT !.backing = w.st], 0)

\* ChunkState::get_values
ChunkGetValues(base, st, address, buf) ==
    LET t == TranslateChecked(base, st, address, Len(buf))
        g == FlatGetBytes(st.backing, t.ret, buf)
    IN  IF ~t.ok THEN [t EXCEPT !.ret = buf]
        ELSE IF ~g.ok THEN [HeapErr(st, g.err) EXCEPT !.ret = buf]
        ELSE HeapOk(st, g.out)

(***************************************************************************)
(* SpecChunk: one ChunkState driven through its public operations          *)
(***************************************************************************)
\* base address the heap is constructed with
HeapBase == 1073741824

\* bytes of heap backing
HeapSize == 8

\* calls made in one run
MaxHeapOps == 4

\* allocation sizes and access lengths asked for
HeapSizes == 1..3

\* addresses handed to the heap: every byte in it and one past its end
\* (address - base_address is only taken for addresses at or above the base)
HeapAddrs == HeapBase..(HeapBase + HeapSize)

\* the byte pattern written by set_values
HeapBytes(n) == [i \in 1..n |-> 170]

InitChunk ==
    /\ FlatIdle /\ ClIdle /\ ForkIdle /\ StepIdle /\ BranchIdle /\ LiftIdle /\ UntilIdle /\ PagedIdle /\ RegistryIdle
    /\ cs = ChunkStateNew(HeapSize)
    /\ scn = 0
    /\ csRes = [op |-> "new", ok |-> TRUE, err |-> "none", ret |-> HeapBase, panic |-> FALSE]
    /\ csOps = 0

CsStep(op, r) ==
    /\ cs' = r.st
    /\ csRes' = [op |-> op, ok |-> r.ok, err |-> r.err, ret |-> r.ret, panic |-> r.panic]
    /\ csOps' = csOps + 1
    /\ UNCHANGED scn
    /\ CsOthers

\* a panic unwinds out of the heap: no further call is made on it
CsLive == csOps < MaxHeapOps /\ ~csRes.panic

CsAllocate(n) == CsLive /\ CsStep("allocate", ChunkAllocate(HeapBase, cs, n))

CsReallocate(addr, n) ==
    /\ CsLive
    /\ LET found == FindAll(cs.regions, addr, addr)
       IN  IF found = {}
           THEN CsStep("reallocate", HeapErr(cs, "ReallocateUnmanaged"))
           ELSE \E region \in found :
                    CsStep("reallocate", ChunkReallocateAt(HeapBase, cs, region, addr, n))

CsDeallocate(addr) ==
    /\ CsLive
    /\ LET found == FindAll(cs.regions, addr, addr)
       IN  IF found = {}
           THEN CsStep("deallocate", HeapErr(cs, "FreeUnmanaged"))
           ELSE \E region \in found :
                    CsStep("deallocate", ChunkDeallocateAt(HeapBase, cs, region, addr))

CsSet(addr, n) == CsLive /\ CsStep("set", ChunkSetValues(HeapBase, cs, addr, HeapBytes(n)))

CsGet(addr, n) == CsLive /\ CsStep("get", ChunkGetValues(HeapBase, cs, addr, [i \in 1..n |-> 255]))

NextChunk ==
    \/ \E n \in HeapSizes : CsAllocate(n)
    \/ \E addr \in HeapAddrs, n \in HeapSizes : CsReallocate(addr, n)
    \/ \E addr \in HeapAddrs : CsDeallocate(addr)
    \/ \E addr \in HeapAddrs, n \in HeapSizes : CsSet(addr, n)
    \/ \E addr \in HeapAddrs, n \in HeapSizes : CsGet(addr, n)

SpecChunk == InitChunk /\ [][NextChunk]_vars

\* C3: for every live allocation of n bytes at A, a one-byte write to the
\* red-zone byte A + n fails with an access violation and leaves the heap as it
\* was, while a write of n bytes at A succeeds.
C3_RedZone ==
    ~csRes.panic =>
        \A r \in cs.regions :
            LET n == r[2] - r[1] + 1
                red == ChunkSetValues(HeapBase, cs, r[1] + n, HeapBytes(1))
                whole == ChunkSetValues(HeapBase, cs, r[1], HeapBytes(n))
            IN  /\ ~red.ok
                /\ red.err = "AccessViolationWrite"
                /\ red.st = cs
                /\ whole.ok

\* C4: translate_checked(a, n) returns an offset exactly when [a, a+n-1] lies
\* inside one live region; touching two regions gives HeapOverflow, touching
\* none gives AccessUnmanaged, and a range that starts inside a region and runs
\* past its last byte is not translated.
C4_Translate ==
    ~csRes.panic =>
        \A a \in HeapAddrs, n \in HeapSizes :
            LET t == TranslateChecked(HeapBase, cs, a, n)
                inside == {r \in cs.regions : r[1] <= a /\ a + n - 1 <= r[2]}
                touched == FindAll(cs.regions, a, a + n - 1)
            IN  /\ t.ok <=> (Cardinality(inside) = 1 /\ touched = inside)
                /\ t.ok => t.ret = a - HeapBase
                /\ Cardinality(touched) >= 2 => t.err = "HeapOverflow"
                /\ touched = {} => t.err = "AccessUnmanaged"
                /\ (\E r \in cs.regions : r[1] <= a /\ a <= r[2] /\ a + n - 1 > r[2]) => ~t.ok

(***************************************************************************)
(* SpecRealloc: allocate A, allocate B, fill B, deallocate A, grow B, on   *)
(* fresh heaps of several sizes                                            *)
(***************************************************************************)
\* size of the two allocations and the size B is grown to
AllocSize == 16

GrowSize == 64

\* heap sizes tried: around the sizes where the outcome of the grow changes,
\* and the 0x1000-byte heap of the documented scenario
SmallestHeap == 60

LargestHeap == 86

ScenarioHeaps == (SmallestHeap..LargestHeap) \cup {4096}

\* the bytes stored in B before it is grown
Pattern(k) == [i \in 1..AllocSize |-> ((k * i) % 251) + 1]

InitRealloc ==
    /\ FlatIdle /\ ClIdle /\ ForkIdle /\ StepIdle /\ BranchIdle /\ LiftIdle /\ UntilIdle /\ PagedIdle /\ RegistryIdle
    /\ \E n \in ScenarioHeaps :
        /\ cs = ChunkStateNew(n)
        /\ scn = [n |-> n, a |-> 0, b |-> 0, pre |-> <<>>]
    /\ csRes = [op |-> "new", ok |-> TRUE, err |-> "none", ret |-> HeapBase, panic |-> FALSE]
    /\ csOps = 0

ScnStep(op, r, s) ==
    /\ cs' = r.st
    /\ csRes' = [op |-> op, ok |-> r.ok, err |-> r.err, ret |-> r.ret, panic |-> r.panic]
    /\ csOps' = csOps + 1
    /\ scn' = s
    /\ CsOthers

ScnAllocateA ==
    /\ csOps = 0
    /\ LET r == ChunkAllocate(HeapBase, cs, AllocSize)
       IN  ScnStep("allocate", r, [scn EXCEPT !.a = r.ret])

ScnAllocateB ==
    /\ csOps = 1 /\ csRes.ok
    /\ LET r == ChunkAllocate(HeapBase, cs, AllocSize)
       IN  ScnStep("allocate", r, [scn EXCEPT !.b = r.ret])

ScnFillB(k) ==
    /\ csOps = 2 /\ csRes.ok
    /\ ScnStep("set", ChunkSetValues(HeapBase, cs, scn.b, Pattern(k)), scn)

ScnDeallocateA ==
    /\ csOps = 3 /\ csRes.ok
    /\ \E region \in FindAll(cs.regions, scn.a, scn.a) :
        ScnStep("deallocate", ChunkDeallocateAt(HeapBase, cs, region, scn.a), scn)

ScnGrowB ==
    /\ csOps = 4 /\ csRes.ok
    /\ \E region \in FindAll(cs.regions, scn.b, scn.b) :
        ScnStep("reallocate", ChunkReallocateAt(HeapBase, cs, region, scn.b, GrowSize),
                [scn EXCEPT !.pre = ChunkGetValues(HeapBase, cs, scn.b,
                                        [i \in 1..AllocSize |-> 0]).ret])

NextRealloc ==
    \/ ScnAllocateA
    \/ ScnAllocateB
    \/ \E k \in {1, 7} : ScnFillB(k)
    \/ ScnDeallocateA
    \/ ScnGrowB

SpecRealloc == InitRealloc /\ [][NextRealloc]_vars

\* the grow call has been made
ScnGrown == csOps = 5

\* the first AllocSize bytes at the address the grow returned
ScnBytesAtResult ==
    ChunkGetValues(HeapBase, cs, csRes.ret, [i \in 1..AllocSize |-> 0])

SegmentStatic(lo, hi, name, offset) ==
    [lo |-> lo, hi |-> hi, kind |-> "Static", name |-> name, offset |-> offset,
     heap |-> ChunkStateNew(0)]

SegmentMapping(lo, hi, name, heap) ==
    [lo |-> lo, hi |-> hi, kind |-> "Mapping", name |-> name, offset |-> 0, heap |-> heap]

\* PagedState::from_parts
PagedFromParts(segments, backing) == [segments |-> segments, inner |-> backing]

\* segments.find(&address)
SegmentsFind(mem, address) == {g \in mem.segments : g.lo <= address /\ address <= g.hi}

\* PagedState::mapping were only the base address looked up in the segments
PagedMappingBaseOnly(mem, name, base, size) ==
    IF SegmentsFind(mem, base) # {}
    THEN Err(mem, "OverlappedMapping")
    ELSE Ok([mem EXCEPT !.segments = @ \cup
                {SegmentMapping(base, base + size - 1, name, ChunkStateNew(size))}], <<>>)

\* PagedState::mapping
PagedMapping(mem, name, base, size) ==
    IF \E g \in mem.segments : g.lo <= base + size - 1 /\ base <= g.hi
    THEN Err(mem, "OverlappedMapping")
    ELSE Ok([mem EXCEPT !.segments = @ \cup
                {SegmentMapping(base, base + size - 1, name, ChunkStateNew(size))}], <<>>)

\* the closure handed to with_flat / with_flat_mut by set_values,
\* view_values_mut and get_values
FlatClosure(op, flt, off, bytes) ==
    IF op = "set" THEN FlatSetBytes(flt, off, bytes)
    ELSE IF op = "view_mut" THEN FlatViewBytesMut(flt, off, bytes)
    ELSE IF op = "view" THEN FlatViewBytes(flt, off, Len(bytes))
    ELSE FlatGetBytes(flt, off, bytes)

\* PagedState::with_flat_mut were a Static segment rebased without its offset
PagedWithFlatMutNoOffset(mem, address, op, bytes) ==
    IF SegmentsFind(mem, address) = {} THEN Err(mem, "UnmappedAddress")
    ELSE Only({
        IF address + Len(bytes) - 1 > g.hi THEN Err(mem, "OverlappedAccess")
        ELSE IF g.kind = "Mapping"
        THEN Only({
                IF ~t.ok THEN Err(mem, t.err)
                ELSE Only({
                        IF ~rm.ok THEN Err(mem, rm.err)
                        ELSE Ok([mem EXCEPT !.segments =
                                    (@ \ {g}) \cup {[g EXCEPT !.heap.backing = rm.st]}], rm.out)
                        : rm \in {FlatClosure(op, g.heap.backing, t.ret, bytes)} })
                : t \in {TranslateChecked(g.lo, g.heap, address, Len(bytes))} })
        ELSE Only({
                IF ~rs.ok THEN Err(mem, rs.err)
                ELSE Ok([mem EXCEPT !.inner = rs.st], rs.out)
                : rs \in {FlatClosure(op, mem.inner, address - g.lo, bytes)} })
        : g \in {CHOOSE x \in SegmentsFind(mem, address) : TRUE} })

\* PagedState::with_flat_mut: the closure runs on the flat state that backs
\* the address, at the translated offset
PagedWithFlatMut(mem, address, op, bytes) ==
    IF SegmentsFind(mem, address) = {} THEN Err(mem, "UnmappedAddress")
    ELSE Only({
        IF address + Len(bytes) - 1 > g.hi THEN Err(mem, "OverlappedAccess")
        ELSE IF g.kind = "Mapping"
        THEN Only({
                IF ~t.ok THEN Err(mem, t.err)
                ELSE Only({
                        IF ~rm.ok THEN Err(mem, rm.err)
                        ELSE Ok([mem EXCEPT !.segments =
                                    (@ \ {g}) \cup {[g EXCEPT !.heap.backing = rm.st]}], rm.out)
                        : rm \in {FlatClosure(op, g.heap.backing, t.ret, bytes)} })
                : t \in {TranslateChecked(g.lo, g.heap, address, Len(bytes))} })
        ELSE Only({
                IF ~rs.ok THEN Err(mem, rs.err)
                ELSE Ok([mem EXCEPT !.inner = rs.st], rs.out)
                : rs \in {FlatClosure(op, mem.inner, (address - g.lo) + g.offset, bytes)} })
        : g \in {CHOOSE x \in SegmentsFind(mem, address) : TRUE} })

\* PagedState::set_values
PagedSetValues(mem, address, bytes) == PagedWithFlatMut(mem, address, "set", bytes)

\* PagedState::view_values_mut, the caller then storing bytes in the view
PagedViewValuesMut(mem, address, bytes) == PagedWithFlatMut(mem, address, "view_mut", bytes)

\* PagedState::view_values (with_flat)
PagedViewValues(mem, address, size) ==
    PagedWithFlatMut(mem, address, "view", [i \in 1..size |-> 0])

\* PagedState::get_values (with_flat)
PagedGetValues(mem, address, buf) ==
    LET r == PagedWithFlatMut(mem, address, "get", buf)
    IN  IF r.ok THEN r ELSE [r EXCEPT !.out = buf]

\* mapping_for_mut(address) and ChunkState::allocate on the mapping found
PagedAllocate(mem, address, size) ==
    IF {g \in SegmentsFind(mem, address) : g.kind = "Mapping"} = {}
    THEN Err(mem, "UnmappedAddress")
    ELSE Only({
        Only({
            IF ~r.ok
            THEN Err([mem EXCEPT !.segments = (@ \ {g}) \cup {[g EXCEPT !.heap = r.st]}], r.err)
            ELSE Ok([mem EXCEPT !.segments = (@ \ {g}) \cup {[g EXCEPT !.heap = r.st]}],
                    <<r.ret>>)
            : r \in {ChunkAllocate(g.lo, g.heap, size)} })
        : g \in {CHOOSE x \in {y \in SegmentsFind(mem, address) : y.kind = "Mapping"} : TRUE} })

\* ChunkState::fork / ChunkState::restore
ChunkFork(h) == [h EXCEPT !.backing = FlatFork(h.backing)]

ChunkRestore(h, other) ==
    [chunks |-> other.chunks, regions |-> other.regions,
     backing |-> FlatRestore(h.backing, other.backing)]

\* Segment::fork
SegmentFork(g) == IF g.kind = "Mapping" THEN [g EXCEPT !.heap = ChunkFork(g.heap)] ELSE g

\* Segment::restore panics on segments of different kind, name, offset, base
\* address or length
SegmentCompatible(g, o) ==
    /\ g.kind = o.kind
    /\ g.name = o.name
    /\ g.kind = "Static" => g.offset = o.offset
    /\ g.kind = "Mapping" =>
            g.lo = o.lo /\ FlatLen(g.heap.backing) = FlatLen(o.heap.backing)

SegmentRestore(g, o) ==
    IF g.kind = "Mapping" THEN [g EXCEPT !.heap = ChunkRestore(g.heap, o.heap)] ELSE g

\* other.segments.find_exact(&i)
FindExact(other, g) == {o \in other.segments : o.lo = g.lo /\ o.hi = g.hi}

\* PagedState::fork
PagedFork(mem) ==
    [segments |-> {SegmentFork(g) : g \in mem.segments}, inner |-> FlatFork(mem.inner)]

\* PagedState::restore that keeps the segments without a counterpart
PagedRestoreKeepAll(mem, other) ==
    [segments |-> {IF FindExact(other, g) # {}
                   THEN SegmentRestore(g, CHOOSE o \in FindExact(other, g) : TRUE) ELSE g :
                        g \in mem.segments},
     inner |-> FlatRestore(mem.inner, other.inner)]

\* PagedState::restore: segments without an exact counterpart are dropped
PagedRestore(mem, other) ==
    [segments |-> {SegmentRestore(g, CHOOSE o \in FindExact(other, g) : TRUE) :
                        g \in {x \in mem.segments : FindExact(other, x) # {}}},
     inner |-> FlatRestore(mem.inner, other.inner)]

PagedRestorePanics(mem, other) ==
    \E g \in mem.segments : \E o \in FindExact(other, g) : ~SegmentCompatible(g, o)

(***************************************************************************)
(* fuguex-state/src/pcode.rs: PCodeState                                   *)
(***************************************************************************)
\* PCodeState::new
PCodeNew(memory, regSize, tmpSize) ==
    [memory |-> memory, registers |-> FlatNew(regSize), temporaries |-> FlatNew(tmpSize)]

\* PCodeState::fork
PCodeFork(p) ==
    [memory |-> PagedFork(p.memory),
     registers |-> FlatFork(p.registers),
     temporaries |-> FlatFork(p.temporaries)]

\* PCodeState::restore
PCodeRestore(p, other) ==
    [memory |-> PagedRestore(p.memory, other.memory),
     registers |-> FlatRestore(p.registers, other.registers),
     temporaries |-> FlatRestore(p.temporaries, other.temporaries)]

\* with_operand_values_mut taking an Operand::Constant for a temporary
PCodeSetOperandAnyKind(p, kind, where, bytes) ==
    IF kind = "Address"
    THEN Only({ [ok |-> m.ok, err |-> m.err, st |-> [p EXCEPT !.memory = m.st]]
                : m \in {PagedViewValuesMut(p.memory, where, bytes)} })
    ELSE IF kind = "Register"
    THEN Only({ [ok |-> r.ok, err |-> r.err, st |-> [p EXCEPT !.registers = r.st]]
                : r \in {FlatViewBytesMut(p.registers, where, bytes)} })
    ELSE Only({ [ok |-> t.ok, err |-> t.err, st |-> [p EXCEPT !.temporaries = t.st]]
                : t \in {FlatViewBytesMut(p.temporaries, where, bytes)} })

\* PCodeState::with_operand_values_mut followed by the store into the view;
\* an Operand::Constant panics ("cannot mutate Operand::Constant")
PCodeSetOperand(p, kind, where, bytes) ==
    IF kind = "Address"
    THEN Only({ [ok |-> m.ok, err |-> m.err, st |-> [p EXCEPT !.memory = m.st]]
                : m \in {PagedViewValuesMut(p.memory, where, bytes)} })
    ELSE IF kind = "Register"
    THEN Only({ [ok |-> r.ok, err |-> r.err, st |-> [p EXCEPT !.registers = r.st]]
                : r \in {FlatViewBytesMut(p.registers, where, bytes)} })
    ELSE IF kind = "Constant"
    THEN [ok |-> FALSE, err |-> "Panic", st |-> p]
    ELSE Only({ [ok |-> t.ok, err |-> t.err, st |-> [p EXCEPT !.temporaries = t.st]]
                : t \in {FlatViewBytesMut(p.temporaries, where, bytes)} })

(***************************************************************************)
(* SpecFork: a PCodeState is set up, forked, the fork written, and the     *)
(* fork restored from its parent                                           *)
(***************************************************************************)
\* base and size of the static memory segment (two dirty blocks)
StaticBase == 65536

MemSize == 66

\* size of the heap mapping and of the register and temporary spaces
MappedSize == 6

RegSize == 8

TmpSize == 4

\* writes made to the parent before the fork, and to the child after it
MaxParentOps == 1

MaxChildOps == 2

\* where the operands written lie: memory (static, heap mapping, unmapped),
\* register offsets, temporary offsets
MemAddrs == {StaticBase + BLOCK_SIZE - 1, StaticBase + MemSize - 1, HeapBase, HeapBase + MappedSize}

OperandPlaces ==
    ({"Address"} \X MemAddrs) \cup ({"Register"} \X {0, RegSize - 1}) \cup ({"Variable"} \X {0})

\* bytes the parent holds before the fork, and bytes the child stores
ParentBytes(n) == [i \in 1..n |-> 17]

InitFork ==
    /\ FlatIdle /\ ClIdle /\ CsIdle /\ StepIdle /\ BranchIdle /\ LiftIdle /\ UntilIdle /\ PagedIdle /\ RegistryIdle
    /\ \E m \in {PagedMapping(PagedFromParts(
                    {SegmentStatic(StaticBase, StaticBase + MemSize - 1, "ram", 0)},
                    FlatNew(MemSize)), "heap", HeapBase, MappedSize)} :
            parent = PCodeNew(m.st, RegSize, TmpSize)
    /\ child = parent
    /\ forkRes = [phase |-> "parent", op |-> "new", ok |-> TRUE, pops |-> 0, cops |-> 0,
                  pre |-> parent]

ForkStep(phase, op, ok, p, c, pops, cops, pre) ==
    /\ parent' = p
    /\ child' = c
    /\ forkRes' = [phase |-> phase, op |-> op, ok |-> ok, pops |-> pops, cops |-> cops,
                   pre |-> pre]
    /\ ForkOthers

\* before the fork the child does not exist: it is kept equal to the parent
ParentSet(place, n) ==
    /\ forkRes.phase = "parent" /\ forkRes.pops < MaxParentOps
    /\ LET r == PCodeSetOperand(parent, place[1], place[2], ParentBytes(n))
       IN  ForkStep("parent", "set", r.ok, r.st, r.st, forkRes.pops + 1, 0, r.st)

ParentAllocate(n) ==
    /\ forkRes.phase = "parent" /\ forkRes.pops < MaxParentOps
    /\ LET r == PagedAllocate(parent.memory, HeapBase, n)
           p == [parent EXCEPT !.memory = r.st]
       IN  ForkStep("parent", "allocate", r.ok, p, p, forkRes.pops + 1, 0, p)

Fork ==
    /\ forkRes.phase = "parent"
    /\ ForkStep("child", "fork", TRUE, parent, PCodeFork(parent), forkRes.pops, 0, parent)

ChildLive == forkRes.phase \in {"child", "restored"} /\ forkRes.cops < MaxChildOps

ChildSet(place, n) ==
    /\ ChildLive
    /\ LET r == PCodeSetOperand(child, place[1], place[2], HeapBytes(n))
       IN  ForkStep("child", "set", r.ok, parent, r.st, forkRes.pops, forkRes.cops + 1, r.st)

ChildAllocate(n) ==
    /\ ChildLive
    /\ LET r == PagedAllocate(child.memory, HeapBase, n)
           c == [child EXCEPT !.memory = r.st]
       IN  ForkStep("child", "allocate", r.ok, parent, c, forkRes.pops, forkRes.cops + 1, c)

ChildMapping(size) ==
    /\ ChildLive
    /\ LET r == PagedMapping(child.memory, "scratch", StaticBase + MemSize, size)
           c == [child EXCEPT !.memory = r.st]
       IN  ForkStep("child", "mapping", r.ok, parent, c, forkRes.pops, forkRes.cops + 1, c)

Restore ==
    /\ forkRes.phase = "child"
    /\ IF PagedRestorePanics(child.memory, parent.memory)
       THEN ForkStep("panicked", "restore", FALSE, parent, child, forkRes.pops, forkRes.cops, child)
       ELSE ForkStep("restored", "restore", TRUE, parent, PCodeRestore(child, parent),
                     forkRes.pops, forkRes.cops, child)

NextFork ==
    \/ \E place \in OperandPlaces, n \in {1, 2} : ParentSet(place, n)
    \/ \E n \in {1, 2} : ParentAllocate(n)
    \/ Fork
    \/ \E place \in OperandPlaces, n \in {1, 2} : ChildSet(place, n)
    \/ \E n \in {1, 2} : ChildAllocate(n)
    \/ \E size \in {1, MappedSize} : ChildMapping(size)
    \/ Restore

SpecFork == InitFork /\ [][NextFork]_vars

\* the bytes and permissions of a flat state, without its dirty bookkeeping
FlatContents(f) == [backing |-> f.backing, permissions |-> f.permissions]

\* the bytes, permissions and layout of a PCodeState
PCodeContents(p) ==
    [registers |-> FlatContents(p.registers),
     temporaries |-> FlatContents(p.temporaries),
     inner |-> FlatContents(p.memory.inner),
     segments |-> {[lo |-> g.lo, hi |-> g.hi, kind |-> g.kind, name |-> g.name,
                    offset |-> g.offset, chunks |-> g.heap.chunks,
                    regions |-> g.heap.regions, heap |-> FlatContents(g.heap.backing)] :
                        g \in p.memory.segments}]

POINTER_8_SIZE == 1

POINTER_16_SIZE == 2

POINTER_32_SIZE == 4

POINTER_64_SIZE == 8

\* Operand::Address / Constant / Register / Variable
Operand(kind, value, size) == [kind |-> kind, value |-> value, size |-> size]

NoOperand == Operand("None", 0, 0)

\* one entry of the trace of a step: a hook callback and what it returned, or
\* an access or dispatch made by the interpreter itself (hook 0)
Event(ev, hook, ret, operand) ==
    [ev |-> ev, hook |-> hook, ret |-> ret, operand |-> operand, bytes |-> <<>>]

\* the entry of a read or write made by the interpreter, with the bytes moved
Access(ev, ret, operand, bytes) ==
    [ev |-> ev, hook |-> 0, ret |-> ret, operand |-> operand, bytes |-> bytes]

\* into_bytes / from_bytes of the (little-endian) byte order O
IntoBytes(value, size) == [i \in 1..size |-> (value \div (256 ^ (i - 1))) % 256]

RECURSIVE FromBytes(_)
FromBytes(bytes) ==
    IF bytes = <<>> THEN 0 ELSE bytes[1] + 256 * FromBytes(Tail(bytes))

\* a context: the PCodeState, the registered hooks, the trace so far
Log(ctx, events) == [ctx EXCEPT !.log = @ \o events]

\* for hook in self.hooks.iter_mut() { hook.<callback>(..)?; } for a callback
\* that leaves the state alone: field names the callback of the hook
FireAll(ctx, ev, field, operand) ==
    Log(ctx, [h \in 1..Len(ctx.hooks) |-> Event(ev, h, ctx.hooks[h][field], operand)])

\* bytes of the buffer a Constant is expanded into: `let mut values: [T; 8]`
CONSTANT_BUFFER == 8

\* byte i (from the low-order end, 0 first) of a u64
RECURSIVE ByteOf(_, _)
ByteOf(value, i) == IF i = 0 THEN value % 256 ELSE ByteOf(value \div 256, i - 1)

\* value.to_le_bytes() and value.to_be_bytes()
ToLeBytes(value) == [i \in 1..CONSTANT_BUFFER |-> ByteOf(value, i - 1)]

ToBeBytes(value) == [i \in 1..CONSTANT_BUFFER |-> ByteOf(value, CONSTANT_BUFFER - i)]

\* the Operand::Constant arm of with_operand_values: values[..size] of the
\* eight-element buffer, filled from to_be_bytes()[8 - size..] or
\* to_le_bytes()[..size]; a size above eight indexes past the buffer and panics
ConstantValues(value, size, big) ==
    IF size > CONSTANT_BUFFER
    THEN [ok |-> FALSE, mem |-> FALSE, err |-> "Panic", bytes |-> <<>>]
    ELSE [ok |-> TRUE, mem |-> FALSE, err |-> "none",
          bytes |-> [i \in 1..size |->
                        IF big THEN ToBeBytes(value)[(CONSTANT_BUFFER - size) + i]
                        ELSE ToLeBytes(value)[i]]]

\* PCodeState::with_operand_values: mem tells a pcode::Error::Memory apart
StateRead(st, operand) ==
    IF operand.kind = "Address"
    THEN Only({ [ok |-> m.ok, mem |-> ~m.ok, err |-> m.err, bytes |-> m.out]
                : m \in {PagedViewValues(st.memory, operand.value, operand.size)} })
    ELSE IF operand.kind = "Constant"
    THEN ConstantValues(operand.value, operand.size, FALSE)
    ELSE IF operand.kind = "Register"
    THEN Only({ [ok |-> r.ok, mem |-> FALSE, err |-> r.err, bytes |-> r.out]
                : r \in {FlatViewBytes(st.registers, operand.value, operand.size)} })
    ELSE Only({ [ok |-> t.ok, mem |-> FALSE, err |-> t.err, bytes |-> t.out]
                : t \in {FlatViewBytes(st.temporaries, operand.value, operand.size)} })

\* PCodeState::with_operand_values_mut with values.copy_from_slice(buf)
StateWrite(st, operand, bytes) ==
    Only({ [ok |-> w.ok, mem |-> ~w.ok /\ operand.kind = "Address", err |-> w.err, st |-> w.st]
           : w \in {PCodeSetOperand(st, operand.kind, operand.value, bytes)} })

\* HookConcrete::hook_invalid_memory_access of one hook: the state it leaves,
\* the action, the state_changed flag, the bytes of a Value action
HookInvalid(hook, st, address, size, source) ==
    LET none == [st |-> st, action |-> "Pass", changed |-> FALSE, values |-> <<>>]
    IN  CASE hook.invalid = "Skip" -> [none EXCEPT !.action = "Skip"]
          [] hook.invalid = "Value" ->
                [none EXCEPT !.action = "Value", !.values = [i \in 1..size |-> 17 * i]]
          [] hook.invalid = "Changed" -> [none EXCEPT !.changed = TRUE]
          [] hook.invalid = "Map" ->
                Only({
                    IF mapped.ok
                    THEN [none EXCEPT !.changed = TRUE,
                                      !.st.memory = PagedAllocate(mapped.st, address, size).st]
                    ELSE [none EXCEPT !.changed = TRUE]
                    : mapped \in {PagedMapping(st.memory, "auto", address, size + 1)} })
          [] hook.invalid = "Policy" ->
                IF source = "Read"
                THEN [none EXCEPT !.action = "Value", !.values = [i \in 1..size |-> 0]]
                ELSE [none EXCEPT !.action = "Skip"]
          [] OTHER -> none

\* the loop over the hooks after a failed read: chosen is the last result with
\* state_changed or a Value action (index 0: none)
RECURSIVE InvalidReadLoop(_, _, _, _, _)
InvalidReadLoop(ctx, h, operand, source, chosen) ==
    IF h > Len(ctx.hooks) THEN [ctx |-> ctx, chosen |-> chosen]
    ELSE Only({
            InvalidReadLoop(Log([ctx EXCEPT !.state = r.st],
                                <<Event("invalid_memory_access", h, r.action, operand)>>),
                            h + 1, operand, source,
                            IF r.changed \/ r.action = "Value"
                            THEN [some |-> TRUE, action |-> r.action, values |-> r.values]
                            ELSE chosen)
            : r \in {HookInvalid(ctx.hooks[h], ctx.state, operand.value, operand.size, source)} })

\* the loop over the hooks after a failed write: state_changed and skipped
\* accumulate over all hooks
RECURSIVE InvalidWriteLoop(_, _, _, _, _)
InvalidWriteLoop(ctx, h, operand, changed, skipped) ==
    IF h > Len(ctx.hooks) THEN [ctx |-> ctx, changed |-> changed, skipped |-> skipped]
    ELSE Only({
            InvalidWriteLoop(Log([ctx EXCEPT !.state = r.st],
                                 <<Event("invalid_memory_access", h, r.action, operand)>>),
                             h + 1, operand, changed \/ r.changed, skipped \/ r.action = "Skip")
            : r \in {HookInvalid(ctx.hooks[h], ctx.state, operand.value, operand.size, "Write")} })

\* results of the interpreter's helpers
Done(ctx, bytes) == [ok |-> TRUE, err |-> "none", ctx |-> ctx, bytes |-> bytes]

Fail(ctx, e) == [ok |-> FALSE, err |-> e, ctx |-> ctx, bytes |-> <<>>]

\* for (d, s) in buf.iter_mut().zip(values): the Value bytes overwrite the
\* front of the (zeroed) buffer
ZipInto(size, values) ==
    [i \in 1..size |-> IF i <= Len(values) THEN values[i] ELSE 0]

\* the bytes a hook that pokes stores into the operand it is called for
PokeBytes(size) == [i \in 1..size |-> 90]

\* HookConcrete::hook_operand_read of one hook: the state it leaves. A hook
\* that pokes stores into the operand's storage and ignores a failure
HookRead(hook, st, operand) ==
    IF hook.read = "Poke" /\ operand.kind \in {"Address", "Register", "Variable"}
    THEN Only({ IF w.ok THEN w.st ELSE st
                : w \in {PCodeSetOperand(st, operand.kind, operand.value,
                                          PokeBytes(operand.size))} })
    ELSE st

\* for hook in self.hooks.iter_mut() { hook.hook_operand_read(&mut self.state,
\* operand)?; }
RECURSIVE FireReads(_, _, _)
FireReads(ctx, h, operand) ==
    IF h > Len(ctx.hooks) THEN ctx
    ELSE FireReads(Log([ctx EXCEPT !.state = HookRead(ctx.hooks[h], ctx.state, operand)],
                       <<Event("operand_read", h, ctx.hooks[h].read, operand)>>),
                   h + 1, operand)

\* the bytes a state holds at an operand
Seen(st, operand) == StateRead(st, operand).bytes

\* for hook in self.hooks.iter_mut() { hook.hook_operand_write(&mut self.state,
\* operand, &buf)?; }: the entry of each hook carries the bytes the state holds
\* at the operand when the hook is called
FireWrites(ctx, operand) ==
    Log(ctx, [h \in 1..Len(ctx.hooks) |->
                 [Event("operand_write", h, ctx.hooks[h].write, operand)
                     EXCEPT !.bytes = Seen(ctx.state, operand)]])

\* read_operand_with reading the operand before its hooks are called
ReadOperandBeforeHooks(ctx, operand, source) ==
    Only({
        Only({
            IF res.ok
            THEN Done(Log(c1, <<Access("read", "ok", operand, res.bytes)>>), res.bytes)
            ELSE IF ~res.mem
            THEN Fail(Log(c1, <<Event("read", 0, "error", operand)>>), res.err)
            ELSE Only({
                IF ~inv.chosen.some
                THEN Fail(Log(inv.ctx, <<Event("read", 0, "error", operand)>>), res.err)
                ELSE IF inv.chosen.action = "Value"
                THEN Done(Log(inv.ctx, <<Access("read", "value", operand,
                                                ZipInto(operand.size, inv.chosen.values))>>),
                          ZipInto(operand.size, inv.chosen.values))
                ELSE Only({
                    IF again.ok
                    THEN Done(Log(inv.ctx, <<Access("read", "retried", operand, again.bytes)>>),
                              again.bytes)
                    ELSE Fail(Log(inv.ctx, <<Event("read", 0, "retry error", operand)>>), again.err)
                    : again \in {StateRead(inv.ctx.state, operand)} })
                : inv \in {InvalidReadLoop(c1, 1, operand, source,
                                           [some |-> FALSE, action |-> "Pass", values |-> <<>>])} })
            : res \in {StateRead(ctx.state, operand)} })
        : c1 \in {FireReads(ctx, 1, operand)} })

\* ConcreteContext::read_operand_with
ReadOperand(ctx, operand, source) ==
    Only({
        Only({
            IF res.ok
            THEN Done(Log(c1, <<Access("read", "ok", operand, res.bytes)>>), res.bytes)
            ELSE IF ~res.mem
            THEN Fail(Log(c1, <<Event("read", 0, "error", operand)>>), res.err)
            ELSE Only({
                IF ~inv.chosen.some
                THEN Fail(Log(inv.ctx, <<Event("read", 0, "error", operand)>>), res.err)
                ELSE IF inv.chosen.action = "Value"
                THEN Done(Log(inv.ctx, <<Access("read", "value", operand,
                                                ZipInto(operand.size, inv.chosen.values))>>),
                          ZipInto(operand.size, inv.chosen.values))
                ELSE Only({
                    IF again.ok
                    THEN Done(Log(inv.ctx, <<Access("read", "retried", operand, again.bytes)>>),
                              again.bytes)
                    ELSE Fail(Log(inv.ctx, <<Event("read", 0, "retry error", operand)>>), again.err)
                    : again \in {StateRead(inv.ctx.state, operand)} })
                : inv \in {InvalidReadLoop(c1, 1, operand, source,
                                           [some |-> FALSE, action |-> "Pass", values |-> <<>>])} })
            : res \in {StateRead(c1.state, operand)} })
        : c1 \in {FireReads(ctx, 1, operand)} })

\* write_operand taking no notice of a hook's Skip
WriteOperandNoSkip(ctx, operand, bytes) ==
    Only({
        IF res.ok
        THEN Done(FireWrites(Log([ctx EXCEPT !.state = res.st],
                              <<Access("write", "ok", operand, bytes)>>), operand), <<>>)
        ELSE IF ~res.mem THEN Fail(Log(ctx, <<Event("write", 0, "error", operand)>>), res.err)
        ELSE Only({
            IF inv.changed
            THEN Only({
                IF again.ok
                THEN Done(FireWrites(Log([inv.ctx EXCEPT !.state = again.st],
                                      <<Access("write", "retried", operand, bytes)>>), operand), <<>>)
                ELSE Fail(Log(inv.ctx, <<Event("write", 0, "error", operand)>>), again.err)
                : again \in {StateWrite(inv.ctx.state, operand, bytes)} })
            ELSE Fail(Log(inv.ctx, <<Event("write", 0, "error", operand)>>), res.err)
            : inv \in {InvalidWriteLoop(ctx, 1, operand, FALSE, FALSE)} })
        : res \in {StateWrite(ctx.state, operand, bytes)} })

\* ConcreteContext::write_operand
WriteOperand(ctx, operand, bytes) ==
    Only({
        IF res.ok
        THEN Done(FireWrites(Log([ctx EXCEPT !.state = res.st],
                              <<Access("write", "ok", operand, bytes)>>), operand), <<>>)
        ELSE IF ~res.mem THEN Fail(Log(ctx, <<Event("write", 0, "error", operand)>>), res.err)
        ELSE Only({
            LET skipped == Log(inv.ctx, <<Event("write", 0, "skipped", operand)>>)
                failed == Log(inv.ctx, <<Event("write", 0, "error", operand)>>)
            IN  IF inv.changed
                THEN Only({
                    IF again.ok
                    THEN Done(FireWrites(Log([inv.ctx EXCEPT !.state = again.st],
                                          <<Access("write", "retried", operand, bytes)>>), operand), <<>>)
                    ELSE IF inv.skipped
                    THEN Done(FireWrites(skipped, operand), <<>>)
                    ELSE Fail(failed, again.err)
                    : again \in {StateWrite(inv.ctx.state, operand, bytes)} })
                ELSE IF inv.skipped
                THEN Done(FireWrites(skipped, operand), <<>>)
                ELSE Fail(failed, res.err)
            : inv \in {InvalidWriteLoop(ctx, 1, operand, FALSE, FALSE)} })
        : res \in {StateWrite(ctx.state, operand, bytes)} })

\* ConcreteContext::get_address_value: the pointer's operand-read hooks are
\* fired here and again inside read_operand_with
GetAddressValue(ctx, pointer, source) ==
    Only({
        IF pointer.size \notin {POINTER_64_SIZE, POINTER_32_SIZE, POINTER_16_SIZE, POINTER_8_SIZE}
        THEN Fail(c1, "UnsupportedAddressSize")
        ELSE ReadOperand(c1, pointer, source)
        : c1 \in {FireReads(ctx, 1, pointer)} })

\* ConcreteContext::copy_operand
CopyOperand(ctx, source, destination, max) ==
    IF source.size > max THEN Fail(ctx, "UnsupportedOperandSize")
    ELSE Only({
            IF ~r.ok THEN r ELSE WriteOperand(r.ctx, destination, r.bytes)
            : r \in {ReadOperand(ctx, source, "Read")} })

\* Outcome::Branch(Branch::Next / Local / Global), Outcome::Halt, Err(e)
Branched(ctx, kind, value) ==
    [res |-> "Branch", branch |-> [kind |-> kind, value |-> value], err |-> "none", ctx |-> ctx]

Halted(ctx) ==
    [res |-> "Halt", branch |-> [kind |-> "Next", value |-> 0], err |-> "none", ctx |-> ctx]

Failed(ctx, e) ==
    [res |-> "Err", branch |-> [kind |-> "Next", value |-> 0], err |-> e, ctx |-> ctx]

\* offset.wrapping_mul(space_word_size) & mask of the address size (the
\* memory space has one-byte words)
AddressOf(offset, spaceSize) == offset % (256 ^ spaceSize)

\* Interpreter::copy
Copy(ctx, source, destination, max) ==
    Only({
        IF r.ok THEN Branched(r.ctx, "Next", 0) ELSE Failed(r.ctx, r.err)
        : r \in {CopyOperand(ctx, source, destination, max)} })

\* Interpreter::load
Load(ctx, source, destination, max) ==
    Only({
        IF ~a.ok THEN Failed(a.ctx, a.err)
        ELSE Copy(a.ctx,
                  Operand("Address", AddressOf(FromBytes(a.bytes), source.size), destination.size),
                  destination, max)
        : a \in {GetAddressValue(ctx, source, "ReadVia")} })

\* Interpreter::store
Store(ctx, source, destination, max) ==
    Only({
        IF ~a.ok THEN Failed(a.ctx, a.err)
        ELSE Copy(a.ctx, source,
                  Operand("Address", AddressOf(FromBytes(a.bytes), destination.size), source.size),
                  max)
        : a \in {GetAddressValue(ctx, destination, "WriteVia")} })

\* Interpreter::branch
Branch(ctx, destination) ==
    IF destination.kind = "Constant" THEN Branched(ctx, "Local", destination.value)
    ELSE IF destination.kind = "Address" THEN Branched(ctx, "Global", destination.value)
    ELSE Failed(ctx, "UnsupportedBranchDestination")

\* the loop over hook_cbranch were a Halt only remembered until its end
RECURSIVE CBranchHooksPastHalt(_, _, _, _)
CBranchHooksPastHalt(ctx, h, condition, flip) ==
    IF h > Len(ctx.hooks)
    THEN [ctx |-> ctx, flip |-> flip,
          halt |-> \E g \in 1..Len(ctx.hooks) : ctx.hooks[g].cbranch = "Halt"]
    ELSE CBranchHooksPastHalt(
             Log(ctx, <<Event("cbranch", h, ctx.hooks[h].cbranch, condition)>>),
             h + 1, condition, flip \/ ctx.hooks[h].cbranch = "Flip")

\* the loop over hook_cbranch: a Halt returns at once, a Flip is remembered
RECURSIVE CBranchHooks(_, _, _, _)
CBranchHooks(ctx, h, condition, flip) ==
    IF h > Len(ctx.hooks) THEN [ctx |-> ctx, flip |-> flip, halt |-> FALSE]
    ELSE Only({
            IF ctx.hooks[h].cbranch = "Halt" THEN [ctx |-> c1, flip |-> flip, halt |-> TRUE]
            ELSE CBranchHooks(c1, h + 1, condition, flip \/ ctx.hooks[h].cbranch = "Flip")
            : c1 \in {Log(ctx, <<Event("cbranch", h, ctx.hooks[h].cbranch, condition)>>)} })

\* bool::from_bytes / bool::into_bytes
BoolFromBytes(bytes) == \E i \in 1..Len(bytes) : bytes[i] # 0

BoolIntoBytes(b, size) == IntoBytes(IF b THEN 1 ELSE 0, size)

\* Interpreter::cbranch without the Flip arm of the hook loop
CBranchIgnoreFlip(ctx, destination, condition) ==
    Only({
        IF hk.halt THEN Halted(hk.ctx)
        ELSE Only({
            IF ~r.ok THEN Failed(r.ctx, r.err)
            ELSE IF BoolFromBytes(r.bytes) THEN Branch(r.ctx, destination)
            ELSE Branched(r.ctx, "Next", 0)
            : r \in {ReadOperand(hk.ctx, condition, "Read")} })
        : hk \in {CBranchHooks(ctx, 1, condition, FALSE)} })

\* Interpreter::cbranch
CBranch(ctx, destination, condition) ==
    Only({
        IF hk.halt THEN Halted(hk.ctx)
        ELSE Only({
            IF ~r.ok THEN Failed(r.ctx, r.err)
            ELSE IF hk.flip
            THEN Only({
                LET flipped == Log([r.ctx EXCEPT !.state = w.st],
                                   <<Access("set_operand", "ok", condition,
                                            BoolIntoBytes(~BoolFromBytes(r.bytes), condition.size))>>)
                IN  IF ~w.ok
                    THEN Failed(Log(r.ctx, <<Event("set_operand", 0, "error", condition)>>),
                                w.err)
                    ELSE IF ~BoolFromBytes(r.bytes) THEN Branch(flipped, destination)
                    ELSE Branched(flipped, "Next", 0)
                : w \in {PCodeSetOperand(r.ctx.state, condition.kind, condition.value,
                             BoolIntoBytes(~BoolFromBytes(r.bytes), condition.size))} })
            ELSE IF BoolFromBytes(r.bytes) THEN Branch(r.ctx, destination)
            ELSE Branched(r.ctx, "Next", 0)
            : r \in {ReadOperand(hk.ctx, condition, "Read")} })
        : hk \in {CBranchHooks(ctx, 1, condition, FALSE)} })

\* Interpreter::ibranch (for a destination other than the program counter)
\* and Interpreter::return_
IBranch(ctx, destination) ==
    Only({
        IF a.ok THEN Branched(a.ctx, "Global", FromBytes(a.bytes)) ELSE Failed(a.ctx, a.err)
        : a \in {GetAddressValue(ctx, destination, "ReadVia")} })

\* Interpreter::operation: the outcomes of hook_operation_step are dropped
Operation(ctx, op) ==
    FireAll(ctx, "operation_step", "op_step", NoOperand)

\* Interpreter::lift for an instruction already in the translator cache: the
\* outcomes of hook_architectural_step are dropped, then the program counter
\* register is set to the address
Lift(ctx, address, pc) ==
    Only({
        IF w.ok THEN [ok |-> TRUE, err |-> "none", ctx |-> [c1 EXCEPT !.state = w.st]]
        ELSE [ok |-> FALSE, err |-> w.err, ctx |-> c1]
        : c1 \in {FireAll(ctx, "architectural_step", "arch_step", NoOperand)},
          w \in {PCodeSetOperand(ctx.state, "Register", pc.value, IntoBytes(address, pc.size))} })

(***************************************************************************)
(* fuguex-machine/src/types.rs: StepState; machine.rs: Machine             *)
(***************************************************************************)
\* a PCodeOp: Copy / Load / Store carry source and destination, Branch /
\* IBranch / Return a destination, CBranch a destination and a condition
PCodeOp(name, source, destination) == [op |-> name, source |-> source, destination |-> destination]

\* the lifted PCode of one instruction
PCode(address, length, operations) ==
    [address |-> address, length |-> length, operations |-> operations]

\* StepState::fallthrough
Fallthrough(pcode) == pcode.address + pcode.length

\* StepState::branch without the range check of a negative offset
StepStateBranchUnchecked(pcode, position, action) ==
    LET npos == IF action.kind = "Next" THEN position + 1 ELSE position + action.value
    IN  IF action.kind = "Global"
        THEN [kind |-> "Global", address |-> action.value, position |-> position]
        ELSE IF npos < Len(pcode.operations)
        THEN [kind |-> "Local", address |-> 0, position |-> npos]
        ELSE [kind |-> "Global", address |-> Fallthrough(pcode), position |-> npos]

\* StepState::branch: the new position, and Local, Global(address) or the
\* panic of a negative local branch out of range
StepStateBranch(pcode, position, action) ==
    LET npos == IF action.kind = "Next" THEN position + 1 ELSE position + action.value
    IN  IF action.kind = "Global"
        THEN [kind |-> "Global", address |-> action.value, position |-> position]
        ELSE IF action.kind = "Local" /\ action.value < 0 /\ -action.value > position
        THEN [kind |-> "Panic", address |-> 0, position |-> position]
        ELSE IF npos < Len(pcode.operations)
        THEN [kind |-> "Local", address |-> 0, position |-> npos]
        ELSE [kind |-> "Global", address |-> Fallthrough(pcode), position |-> npos]

\* the match on op in Machine::step
Dispatch(c1, op, max) ==
    CASE op.op = "Copy" -> Copy(c1, op.source, op.destination, max)
          [] op.op = "Load" -> Load(c1, op.source, op.destination, max)
          [] op.op = "Store" -> Store(c1, op.source, op.destination, max)
          [] op.op = "Branch" -> Branch(c1, op.destination)
          [] op.op = "CBranch" -> CBranch(c1, op.destination, op.source)
          [] op.op = "IBranch" -> IBranch(c1, op.destination)
          [] op.op = "Return" -> IBranch(c1, op.destination)
          [] OTHER -> Branched(c1, "Next", 0)

\* StepOutcome::Halt / Branch(address), Err(e), or a panic, with the context and
\* the position the step state is left at
StepOutcome(kind, address, err, ctx, position) ==
    [kind |-> kind, address |-> address, err |-> err, ctx |-> ctx, position |-> position]

\* the match on action_res in Machine::step with ignore_errors never set
ActionResStrict(r, ignore_errors) ==
    IF r.res = "Err" /\ r.err = "Panic" THEN [then |-> "Panic", action |-> r.branch]
    ELSE IF r.res = "Err" THEN [then |-> "Err", action |-> r.branch]
    ELSE IF r.res = "Halt" THEN [then |-> "Halt", action |-> r.branch]
    ELSE [then |-> "Branch", action |-> r.branch]

\* the match on action_res in Machine::step: an Err is returned, or with
\* ignore_errors becomes Branch::Next; a panic unwinds whatever ignore_errors says
ActionRes(r, ignore_errors) ==
    IF r.res = "Err" /\ r.err = "Panic" THEN [then |-> "Panic", action |-> r.branch]
    ELSE IF r.res = "Err" /\ ~ignore_errors THEN [then |-> "Err", action |-> r.branch]
    ELSE IF r.res = "Err" THEN [then |-> "Branch", action |-> [kind |-> "Next", value |-> 0]]
    ELSE IF r.res = "Halt" THEN [then |-> "Halt", action |-> r.branch]
    ELSE [then |-> "Branch", action |-> r.branch]

\* the while loop of Machine::step from a position of the step state; the trace
\* records each Err an operation returned
RECURSIVE Operations(_, _, _, _, _)
Operations(ctx, pcode, position, ignore_errors, max) ==
    IF position >= Len(pcode.operations)
    THEN StepOutcome("Branch", Fallthrough(pcode), "none", ctx, position)
    ELSE Only({
            Only({
                IF a.then = "Panic" THEN StepOutcome("Panic", 0, "none", c2, position)
                ELSE IF a.then = "Err" THEN StepOutcome("Err", 0, r.err, c2, position)
                ELSE IF a.then = "Halt" THEN StepOutcome("Halt", 0, "none", c2, position)
                ELSE Only({
                        IF b.kind = "Panic" THEN StepOutcome("Panic", 0, "none", c2, position)
                        ELSE IF b.kind = "Global"
                        THEN StepOutcome("Branch", b.address, "none", c2, b.position)
                        ELSE Operations(c2, pcode, b.position, ignore_errors, max)
                        : b \in {StepStateBranch(pcode, position, a.action)} })
                : a \in {ActionRes(r, ignore_errors)},
                  c2 \in {IF r.res = "Err" /\ r.err # "Panic"
                          THEN Log(r.ctx, <<Event("error", 0, r.err,
                                                  Operand("Location", position, 0))>>)
                          ELSE r.ctx} })
            : r \in {Dispatch(Log(Operation(ctx, pcode.operations[position + 1]),
                                  <<Event("dispatch", 0, pcode.operations[position + 1].op,
                                          Operand("Location", position, 0))>>),
                              pcode.operations[position + 1], max)} })

\* Machine::step at the first operation of an instruction
MachineStep(ctx, pcode, pc, ignore_errors, max) ==
    Only({
        IF ~l.ok THEN StepOutcome("Err", 0, l.err, l.ctx, 0)
        ELSE Operations(l.ctx, pcode, 0, ignore_errors, max)
        : l \in {Lift(ctx, pcode.address, pc)} })

\* Machine::step that starts every instruction at its first operation
MachineStepAtZero(ctx, pcode, position, pc, ignore_errors, max) ==
    Only({
        IF ~l.ok THEN StepOutcome("Err", 0, l.err, l.ctx, 0)
        ELSE Operations(l.ctx, pcode, 0, ignore_errors, max)
        : l \in {Lift(ctx, pcode.address, pc)} })

\* Machine::step at a location: the step state lifted at location.address()
\* takes location.position() (with_location), then the while loop runs
MachineStepAt(ctx, pcode, position, pc, ignore_errors, max) ==
    Only({
        IF ~l.ok THEN StepOutcome("Err", 0, l.err, l.ctx, position)
        ELSE Operations(l.ctx, pcode, position, ignore_errors, max)
        : l \in {Lift(ctx, pcode.address, pc)} })

(***************************************************************************)
(* SpecStep: hooks are registered, ignore_errors is set, and the machine   *)
(* steps over one lifted instruction                                       *)
(***************************************************************************)
\* the memory is one static segment at 0; Unmapped lies outside it
StepMemSize == 64

StepRegSize == 8

StepTmpSize == 4

Unmapped == 200

\* OPERAND_SIZE of the ConcreteContext
MaxOperand == 4

\* most hooks registered, most steps made
MaxHooks == 2

MaxSteps == 1

\* the instruction stepped over, and a branch target outside it
InsnAddr == 32

InsnLen == 4

Target == 48

\* a hook: what each of its callbacks returns (hook_invalid_memory_access is
\* interpreted by HookInvalid)
Hook(read, write, op_step, arch_step, cbranch, invalid) ==
    [read |-> read, write |-> write, op_step |-> op_step, arch_step |-> arch_step,
     cbranch |-> cbranch, invalid |-> invalid]

Observer == Hook("Pass", "Pass", "Pass", "Pass", "Pass", "Pass")

Hooks ==
    { Observer,
      [Observer EXCEPT !.read = "Halt"],
      [Observer EXCEPT !.write = "Halt"],
      [Observer EXCEPT !.op_step = "Halt"],
      [Observer EXCEPT !.arch_step = "Halt"],
      [Observer EXCEPT !.cbranch = "Halt"],
      [Observer EXCEPT !.cbranch = "Flip"],
      [Observer EXCEPT !.invalid = "Value"],
      [Observer EXCEPT !.invalid = "Changed"],
      [Observer EXCEPT !.invalid = "Map"],
      [Observer EXCEPT !.invalid = "Skip"],
      [Observer EXCEPT !.invalid = "Policy"] }

\* the operands the instructions use
ProgramCounter == Operand("Register", 2, 1)

CondReg == Operand("Register", 0, 1)

PtrReg == Operand("Register", 1, 1)

DataReg == Operand("Register", 4, 2)

WideReg == Operand("Register", 4, 4)

CondTmp == Operand("Variable", 0, 1)

DataTmp == Operand("Variable", 0, 2)

WideTmp == Operand("Variable", 0, 4)

CondMem == Operand("Address", 3, 1)

PtrMem == Operand("Address", 5, 1)

Const(value, size) == Operand("Constant", value, size)

Insn(operations) == PCode(InsnAddr, InsnLen, operations)

\* the lifted instructions the machine is stepped over
Programs ==
    { Insn(<<PCodeOp("Copy", Const(2571, 2), DataReg), PCodeOp("Copy", DataReg, DataTmp)>>),
      Insn(<<PCodeOp("Copy", Operand("Address", Unmapped, 4), WideTmp),
             PCodeOp("Copy", WideTmp, WideReg)>>),
      Insn(<<PCodeOp("Copy", Const(7, 1), Operand("Address", Unmapped, 1)),
             PCodeOp("Copy", Const(1, 1), CondTmp)>>),
      Insn(<<PCodeOp("Copy", Const(8, 1), PtrReg), PCodeOp("Load", PtrReg, DataTmp)>>),
      Insn(<<PCodeOp("Copy", Const(Unmapped, 1), PtrReg), PCodeOp("Load", PtrReg, DataTmp),
             PCodeOp("Copy", Const(9, 2), DataReg)>>),
      Insn(<<PCodeOp("Copy", Const(8, 1), PtrReg), PCodeOp("Store", Const(2571, 2), PtrReg)>>),
      Insn(<<PCodeOp("CBranch", CondTmp, Const(2, 1)), PCodeOp("Copy", Const(5, 2), DataReg),
             PCodeOp("Copy", Const(6, 1), PtrReg)>>),
      Insn(<<PCodeOp("CBranch", CondReg, Operand("Address", Target, 1)),
             PCodeOp("Copy", Const(5, 2), DataReg)>>),
      Insn(<<PCodeOp("CBranch", CondMem, Operand("Address", Target, 1)),
             PCodeOp("Copy", Const(5, 2), DataReg)>>),
      Insn(<<PCodeOp("Copy", Const(1, 1), CondMem),
             PCodeOp("CBranch", CondMem, Operand("Address", Target, 1)),
             PCodeOp("Copy", Const(5, 2), DataReg)>>),
      Insn(<<PCodeOp("CBranch", Operand("Address", Unmapped, 1), Const(2, 1)),
             PCodeOp("Copy", Const(5, 2), DataReg)>>),
      Insn(<<PCodeOp("Copy", Const(Target, 1), PtrReg), PCodeOp("IBranch", NoOperand, PtrReg)>>),
      Insn(<<PCodeOp("Copy", Const(Target, 1), PtrMem), PCodeOp("Return", NoOperand, PtrMem)>>),
      Insn(<<PCodeOp("Branch", NoOperand, Const(2, 1)), PCodeOp("Copy", Const(5, 2), DataReg),
             PCodeOp("Copy", Const(6, 1), PtrReg)>>),
      Insn(<<PCodeOp("Branch", NoOperand, CondReg), PCodeOp("Copy", Const(5, 2), DataReg)>>),
      Insn(<<PCodeOp("Copy", Const(3, 1), CondReg), PCodeOp("Copy", CondReg, Const(0, 1)),
             PCodeOp("Copy", Const(9, 2), DataReg)>>),
      Insn(<<PCodeOp("Load", PtrReg, Const(0, 2)), PCodeOp("Copy", Const(9, 2), DataReg)>>),
      Insn(<<PCodeOp("CBranch", Const(0, 1), Operand("Address", Target, 1)),
             PCodeOp("Copy", Const(5, 2), DataReg)>>),
      Insn(<<PCodeOp("Copy", Const(7, 1), Operand("Address", Unmapped, 1)),
             PCodeOp("Copy", Const(1, 1), CondTmp),
             PCodeOp("Copy", Operand("Address", Unmapped, 2), DataTmp)>>) }

\* Machine::new over a ConcreteContext with no hooks
InitStep ==
    /\ FlatIdle /\ ClIdle /\ CsIdle /\ ForkIdle /\ BranchIdle /\ LiftIdle /\ UntilIdle /\ PagedIdle /\ RegistryIdle
    /\ machine = [state |-> PCodeNew(PagedFromParts(
                                {SegmentStatic(0, StepMemSize - 1, "ram", 0)},
                                FlatNew(StepMemSize)), StepRegSize, StepTmpSize),
                  hooks |-> <<>>, ignore_errors |-> FALSE, steps |-> 0]
    /\ stepRes = [op |-> "new", pcode |-> Insn(<<>>), kind |-> "none", address |-> 0,
                  err |-> "none", log |-> <<>>, pre |-> machine.state]

\* ConcreteContext::add_hook
AddHook(hook) ==
    /\ machine.steps = 0
    /\ Len(machine.hooks) < MaxHooks
    /\ machine' = [machine EXCEPT !.hooks = Append(@, hook)]
    /\ stepRes' = [stepRes EXCEPT !.op = "add_hook"]
    /\ StepOthers

\* Machine::ignore_errors
IgnoreErrors(flag) ==
    /\ machine.steps = 0
    /\ machine.ignore_errors # flag
    /\ machine' = [machine EXCEPT !.ignore_errors = flag]
    /\ stepRes' = [stepRes EXCEPT !.op = "ignore_errors"]
    /\ StepOthers

\* Machine::step
Step(pcode) ==
    /\ machine.steps < MaxSteps
    /\ \E r \in {MachineStep([state |-> machine.state, hooks |-> machine.hooks, log |-> <<>>],
                              pcode, ProgramCounter, machine.ignore_errors, MaxOperand)} :
           /\ machine' = [machine EXCEPT !.state = r.ctx.state, !.steps = @ + 1]
           /\ stepRes' = [op |-> "step", pcode |-> pcode, kind |-> r.kind,
                          address |-> r.address, err |-> r.err, log |-> r.ctx.log,
                          pre |-> machine.state]
    /\ StepOthers

NextStep ==
    \/ \E hook \in Hooks : AddHook(hook)
    \/ \E flag \in BOOLEAN : IgnoreErrors(flag)
    \/ \E pcode \in Programs : Step(pcode)

SpecStep == InitStep /\ [][NextStep]_vars

\* the trace of the last step
Stepped == stepRes.op = "step"

Trace == stepRes.log

Registered == 1..Len(machine.hooks)

\* the entries of the trace where callback ev of hook h fired
Fired(ev, h) == {i \in 1..Len(Trace) : Trace[i].ev = ev /\ Trace[i].hook = h}

\* the operand reads attempted, and the operand writes that returned Ok or
\* were stored by set_operand
OperandReads == {i \in 1..Len(Trace) : Trace[i].ev = "read"}

OperandWrites ==
    {i \in 1..Len(Trace) :
        \/ Trace[i].ev = "write" /\ Trace[i].ret # "error"
        \/ Trace[i].ev = "set_operand"}

\* the effects of the ops: a store into the state, or the dispatch of an op
Effects ==
    {i \in 1..Len(Trace) :
        \/ Trace[i].ev = "write" /\ Trace[i].ret \in {"ok", "retried"}
        \/ Trace[i].ev = "set_operand"
        \/ Trace[i].ev = "dispatch"}

\* C6: for every registered hook and every operand access of a step
\* (pointer reads and the condition access of CBranch included), the hook's
\* operand-read callback fires exactly once per read and its operand-write
\* callback exactly once per write, and the hooks fire in registration order.
C6_OncePerAccess ==
    Stepped =>
        /\ \A h \in Registered :
            /\ Cardinality(Fired("operand_read", h)) = Cardinality(OperandReads)
            /\ Cardinality(Fired("operand_write", h)) = Cardinality(OperandWrites)
        /\ \A i \in 1..Len(Trace) :
            Trace[i].hook > 1 =>
                /\ i > 1
                /\ Trace[i - 1].ev = Trace[i].ev
                /\ Trace[i - 1].hook = Trace[i].hook - 1

\* the fire points whose Halt is to stop the machine
HaltPoints == {"operand_read", "operand_write", "operation_step", "architectural_step"}

\* C7: whenever a hook returns Halt at an operand read, operand write,
\* operation step or architectural step, nothing more of the op takes effect,
\* no later op is dispatched, and Machine.step returns Halt.
C7_HaltShortCircuits ==
    Stepped =>
        \A i \in 1..Len(Trace) :
            (Trace[i].hook > 0 /\ Trace[i].ev \in HaltPoints /\ Trace[i].ret = "Halt") =>
                /\ stepRes.kind = "Halt"
                /\ \A j \in Effects : j < i

\* the reads of a step that failed with a memory error
FailedReads ==
    {i \in OperandReads : Trace[i].ret # "ok" /\ Trace[i].operand.kind = "Address"}

\* the hooks whose invalid-memory-access callback, fired for the failed read
\* at entry i, returned Value, and those that signalled state_changed
GaveValue(i) ==
    {h \in Registered : Trace[i - Len(machine.hooks) + h - 1].ret = "Value"}

SignalledChange == {h \in Registered : machine.hooks[h].invalid \in {"Changed", "Map"}}

\* C8: when an operand read fails with a memory error, every hook's
\* invalid-memory-access callback is invoked once, in registration order; if
\* any hook returns Value the op consumes those bytes and no error propagates,
\* whatever the later hooks return; otherwise, if any hook signalled
\* state_changed the read is retried; otherwise the original error propagates.
C8_ValueSupersedes ==
    Stepped =>
        \A i \in FailedReads :
            /\ i > Len(machine.hooks)
            /\ \A h \in Registered :
                /\ Trace[i - Len(machine.hooks) + h - 1].ev = "invalid_memory_access"
                /\ Trace[i - Len(machine.hooks) + h - 1].hook = h
            /\ IF GaveValue(i) # {}
               THEN /\ Trace[i].ret = "value"
                    /\ \E h \in GaveValue(i) :
                        Trace[i].bytes = HookInvalid(machine.hooks[h], stepRes.pre,
                                             Trace[i].operand.value, Trace[i].operand.size,
                                             "Read").values
               ELSE IF SignalledChange # {}
               THEN Trace[i].ret \in {"retried", "retry error"}
               ELSE Trace[i].ret = "error"

\* the entries where the one registered hook returned Flip for a CBranch
\* whose condition was then read (after the hook's operand-read callback) as 0
FlippedZero ==
    {i \in 2..(Len(Trace) - 2) :
        /\ Trace[i].ev = "cbranch" /\ Trace[i].ret = "Flip"
        /\ Trace[i - 1].ev = "dispatch"
        /\ Trace[i + 2].ev = "read" /\ Trace[i + 2].ret = "ok" /\ Trace[i + 2].bytes = <<0>>}

OneFlipHook == Len(machine.hooks) = 1 /\ machine.hooks[1].cbranch = "Flip"

\* the positions of the ops dispatched after entry i
DispatchedAfter(i) ==
    {Trace[j].operand.value : j \in {k \in (i + 1)..Len(Trace) : Trace[k].ev = "dispatch"}}

\* the CBranch of entry i took the branch to L (a global L ends the step with
\* Branch(L), a local L continues at the op L positions on), and the byte
\* stored at cond after the step is 1
FlipTaken(i) ==
    LET position == Trace[i - 1].operand.value
        op == stepRes.pcode.operations[position + 1]
        L == op.destination
    IN  /\ StateRead(machine.state, op.source).bytes = <<1>>
        /\ IF L.kind = "Address"
           THEN /\ stepRes.kind = "Branch"
                /\ stepRes.address = L.value
                /\ DispatchedAfter(i) = {}
           ELSE /\ \A p \in DispatchedAfter(i) : p >= position + L.value
                /\ position + L.value < Len(stepRes.pcode.operations)
                        => position + L.value \in DispatchedAfter(i)
                /\ stepRes.kind = "Branch"
                /\ stepRes.address = Fallthrough(stepRes.pcode)

\* C9 as stated: with exactly one registered hook, whose cbranch callback
\* returns Flip, a CBranch(L, cond) with cond == 0, whatever operand cond is,
\* takes the branch to L instead of falling through, and the byte stored at
\* cond after the step is 1
C9_FlipTakesBranchAny ==
    (Stepped /\ OneFlipHook) => \A i \in FlippedZero : FlipTaken(i)

\* C9, amended: with exactly one registered hook, whose cbranch callback returns
\* Flip, a CBranch(L, cond) with cond == 0 held in a register, a temporary or
\* memory (not an Operand::Constant) takes the branch to L instead of falling
\* through, and the byte stored at cond after the step is 1
C9_FlipTakesBranch ==
    (Stepped /\ OneFlipHook) =>
        \A i \in FlippedZero : Trace[i].operand.kind # "Constant" => FlipTaken(i)

\* a step with one Flip hook over a CBranch on a zero condition in memory
\* that ended with Branch(Target) and the condition byte set
C9_Witness ==
    /\ Stepped /\ OneFlipHook
    /\ FlippedZero # {}
    /\ stepRes.pcode.operations[1].source = CondMem
    /\ stepRes.kind = "Branch" /\ stepRes.address = Target
    /\ StateRead(machine.state, CondMem).bytes = <<1>>

(***************************************************************************)
(* StepState::branch on its own (fuguex-machine/src/types.rs)              *)
(***************************************************************************)

MaxOps == 3

MaxBranches == 3

BranchAddr == 16

\* the offsets of a local branch: in range, out of range on both sides
Offsets == (0 - (MaxOps + 1))..(MaxOps + 1)

\* Branch::Next, Branch::Local(offset), Branch::Global(address)
BranchAction(kind, value) == [kind |-> kind, value |-> value]

BranchActions ==
    {BranchAction("Next", 0), BranchAction("Global", Target)}
        \cup {BranchAction("Local", d) : d \in Offsets}

\* an instruction of n operations
Nops(n) == PCode(BranchAddr, InsnLen, [i \in 1..n |-> PCodeOp("Copy", Const(i, 1), CondTmp)])

\* StepState::from(pcode)
StepStateFrom(pcode) == [pcode |-> pcode, position |-> 0]

\* an Option<&PCodeOp>
SomeOp(op) == [some |-> TRUE, op |-> op]

NoOp == [some |-> FALSE, op |-> PCodeOp("None", NoOperand, NoOperand)]

\* StepState::current were the slice indexed up to its length only
StepStateCurrentToEnd(st) ==
    IF st.position = Len(st.pcode.operations) THEN NoOp
    ELSE SomeOp(st.pcode.operations[((st.position) % Len(st.pcode.operations)) + 1])

\* StepState::current: self.pcode.operations().get(self.position)
StepStateCurrent(st) ==
    IF st.position \in 0..(Len(st.pcode.operations) - 1)
    THEN SomeOp(st.pcode.operations[st.position + 1])
    ELSE NoOp

\* StepState::with_location(self, location): a location of another address
\* fails the assert_eq!
StepStateWithLocation(st, location) ==
    IF st.pcode.address # location.address
    THEN [panic |-> TRUE, st |-> st]
    ELSE [panic |-> FALSE, st |-> [st EXCEPT !.position = location.position]]

InitBranch ==
    /\ FlatIdle /\ ClIdle /\ CsIdle /\ ForkIdle /\ StepIdle /\ LiftIdle /\ UntilIdle /\ PagedIdle /\ RegistryIdle
    /\ stepState \in {StepStateFrom(Nops(n)) : n \in 1..MaxOps}
    /\ branchRes = [calls |-> 0, action |-> BranchAction("none", 0), pre |-> 0,
                    kind |-> "none", address |-> 0,
                    current |-> StepStateCurrent(stepState)]

\* StepState::branch(&mut self, action); no call follows the panic
DoBranch(action) ==
    /\ branchRes.calls < MaxBranches
    /\ branchRes.kind # "Panic"
    /\ \E r \in {StepStateBranch(stepState.pcode, stepState.position, action)} :
           /\ stepState' = [stepState EXCEPT !.position = r.position]
           /\ branchRes' = [calls |-> branchRes.calls + 1, action |-> action,
                            pre |-> stepState.position, kind |-> r.kind, address |-> r.address,
                            current |-> StepStateCurrent(stepState')]
    /\ BranchOthers

\* the locations the machine is stepped from: any position of the
\* instruction, one beyond its end, or another address
BranchLocations ==
    {[address |-> a, position |-> p] : a \in {BranchAddr, Target}, p \in 0..(MaxOps + 1)}

\* self.step_state = step_state.with_location(&location) in Machine::step
DoWithLocation(location) ==
    /\ branchRes.calls < MaxBranches
    /\ branchRes.kind # "Panic"
    /\ \E r \in {StepStateWithLocation(stepState, location)} :
           /\ stepState' = r.st
           /\ branchRes' = [calls |-> branchRes.calls + 1,
                            action |-> BranchAction("with_location", location.position),
                            pre |-> stepState.position,
                            kind |-> IF r.panic THEN "Panic" ELSE "Located",
                            address |-> location.address,
                            current |-> StepStateCurrent(stepState')]
    /\ BranchOthers

NextBranch ==
    \/ \E action \in BranchActions : DoBranch(action)
    \/ \E location \in BranchLocations : DoWithLocation(location)

SpecBranch == InitBranch /\ [][NextBranch]_vars

\* the last call was branch(Local(offset)) from a position that offset carries
\* below 0 or beyond ops.len()
LocalOutOfRange ==
    /\ branchRes.action.kind = "Local"
    /\ \/ branchRes.pre + branchRes.action.value < 0
       \/ branchRes.pre + branchRes.action.value > Len(stepState.pcode.operations)

\* C11: branch(Local(offset)) never returns Local when position + offset < 0 or
\* position + offset > ops.len(); an out-of-range negative offset aborts, and a
\* non-negative offset that carries the cursor to or beyond ops.len() returns
\* Global(fallthrough())
C11_LocalBranchRange ==
    /\ LocalOutOfRange => branchRes.kind # "Local"
    /\ (branchRes.action.kind = "Local" /\ branchRes.pre + branchRes.action.value < 0)
           => branchRes.kind = "Panic"
    /\ (/\ branchRes.action.kind = "Local"
        /\ branchRes.action.value >= 0
        /\ branchRes.pre + branchRes.action.value >= Len(stepState.pcode.operations))
           => /\ branchRes.kind = "Global"
              /\ branchRes.address = Fallthrough(stepState.pcode)

\* a local branch from a position past the start carried the cursor beyond
\* ops.len() and returned Global
C11_Witness ==
    /\ branchRes.action.kind = "Local"
    /\ branchRes.pre > 0
    /\ branchRes.pre + branchRes.action.value > Len(stepState.pcode.operations)
    /\ branchRes.kind = "Global"

(***************************************************************************)
(* The cursor of a StepState (fuguex-machine/src/types.rs)                 *)
(***************************************************************************)

\* C24 as stated: in every reachable StepState, after any sequence of
\* with_location and branch(Next | Local | Global) calls, 0 <= position <=
\* ops.len() holds, and current() yields no op exactly when position equals
\* ops.len()
C24_PositionWithinOps ==
    /\ 0 <= stepState.position
    /\ stepState.position <= Len(stepState.pcode.operations)
    /\ ~branchRes.current.some <=> stepState.position = Len(stepState.pcode.operations)

\* C24, amended: in every reachable StepState, after any sequence of
\* with_location and branch(Next | Local | Global) calls, 0 <= position holds,
\* and current() yields the op at position when position < ops.len() and no op
\* exactly when position >= ops.len(); a with_location or a branch(Local) beyond
\* the end leaves position greater than ops.len()
C24_PositionFromZero ==
    /\ 0 <= stepState.position
    /\ ~branchRes.current.some <=> stepState.position >= Len(stepState.pcode.operations)
    /\ branchRes.current.some =>
           branchRes.current.op = stepState.pcode.operations[stepState.position + 1]
    /\ (/\ branchRes.action.kind = "Local"
        /\ branchRes.kind = "Global"
        /\ branchRes.pre + branchRes.action.value > Len(stepState.pcode.operations))
           => stepState.position = branchRes.pre + branchRes.action.value
    /\ (branchRes.action.kind = "with_location" /\ branchRes.kind = "Located")
           => stepState.position = branchRes.action.value

\* a local branch from an op of the block carried the cursor beyond ops.len(),
\* where current() yields no op
C24_Witness ==
    /\ branchRes.action.kind = "Local"
    /\ branchRes.pre < Len(stepState.pcode.operations)
    /\ stepState.position > Len(stepState.pcode.operations)
    /\ ~branchRes.current.some

(***************************************************************************)
(* fuguex-concrete/src/interpreter.rs: the translator cache, lift and fork *)
(* SpecLift: an emulator and its fork step over self-modifying code,       *)
(* sharing one translator cache                                            *)
(***************************************************************************)

\* the two instruction addresses, one after the other
CodeA == 32

CodeB == 36

LiftAddrs == {CodeA, CodeB}

\* the addresses a step starts at
StepAddrs == LiftAddrs \cup {Unmapped}

\* most steps of one instance
MaxLiftSteps == 2

\* the instance built first and its fork
Instances == {1, 2}

\* the first bytes an instruction can have
Opcodes == 0..2

\* the values from an address to the end of its segment
ViewValuesFrom(st, address) ==
    IF SegmentsFind(st.memory, address) = {} THEN PagedViewValues(st.memory, address, 1)
    ELSE Only({ PagedViewValues(st.memory, address, (g.hi - address) + 1)
                : g \in {CHOOSE x \in SegmentsFind(st.memory, address) : TRUE} })

\* translator.lift_pcode(context, address, view): the lifter is a function of the
\* address and of the bytes; here the first byte selects the instruction:
\* 1 stores the opcode 2 at CodeB, 2 branches over its second operation
LiftPCode(address, view) ==
    PCode(address, InsnLen,
          CASE view[1] = 1 ->
                  <<PCodeOp("Copy", Const(2, 1), Operand("Address", CodeB, 1))>>
            [] view[1] = 2 ->
                  <<PCodeOp("Branch", NoOperand, Const(2, 1)),
                    PCodeOp("Copy", Const(5, 1), CondTmp),
                    PCodeOp("Copy", Const(6, 1), CondReg)>>
            [] OTHER -> <<PCodeOp("Copy", Const(7, 1), CondTmp)>>)

\* a lookup that hands out the entry with a moved cursor
CacheGetMoved(c, address) == [c[address] EXCEPT !.position = 1]

\* rlock.get(&address).map(|step_state| step_state.clone())
CacheGet(c, address) == c[address]

\* self.translator_cache.write().insert(address, step_state.clone()) with the
\* entry published before it is complete
CacheInsertTorn(c, address, step_state) ==
    [a \in DOMAIN c \cup {address} |->
        IF a = address THEN [step_state EXCEPT !.pcode.operations = <<>>] ELSE c[a]]

\* self.translator_cache.write().insert(address, step_state.clone())
CacheInsert(c, address, step_state) ==
    [a \in DOMAIN c \cup {address} |-> IF a = address THEN step_state ELSE c[a]]

\* PCode::nop(address 0, length 0) of Machine::from
Nop == PCode(0, 0, <<>>)

\* a Machine over a ConcreteContext; held is the history of the first byte the
\* instance's memory has had at each instruction address
Emu(live, state, hooks, held) ==
    [live |-> live, state |-> state, hooks |-> hooks, step_state |-> StepStateFrom(Nop),
     phase |-> "idle", address |-> 0, hit |-> FALSE, lifted |-> StepStateFrom(Nop),
     steps |-> 0, kind |-> "none", next |-> 0, held |-> held]

\* the byte the memory of a state has at an address
ByteAt(st, address) == PagedViewValues(st.memory, address, 1).out[1]

\* a state with the two instructions in memory
CodeState(opA, opB) ==
    PCodeNew(PagedSetValues(
                 PagedSetValues(
                     PagedFromParts({SegmentStatic(0, StepMemSize - 1, "ram", 0)},
                                    FlatNew(StepMemSize)),
                     CodeA, <<opA>>).st,
                 CodeB, <<opB>>).st,
             StepRegSize, StepTmpSize)

\* ConcreteContext::new, Machine::new; the second instance does not exist yet
InitLift ==
    /\ FlatIdle /\ ClIdle /\ CsIdle /\ ForkIdle /\ StepIdle /\ BranchIdle /\ UntilIdle /\ PagedIdle /\ RegistryIdle
    /\ cache = [a \in {} |-> 0]
    /\ \E opA \in {1, 2}, opB \in {0, 1}, hooks \in {<<>>, <<Observer>>} :
          emus = [i \in Instances |->
                     Emu(i = 1, CodeState(opA, opB), hooks,
                         [a \in LiftAddrs |-> {IF a = CodeA THEN opA ELSE opB}])]

\* Interpreter::fork and Machine::new over the fork
ForkEmu ==
    /\ emus[1].phase = "idle"
    /\ ~emus[2].live
    /\ emus' = [emus EXCEPT ![2] =
                   Emu(TRUE, PCodeFork(emus[1].state), emus[1].hooks, emus[1].held)]
    /\ UNCHANGED cache
    /\ LiftOthers

\* Machine::step, lift up to the end of the read lock region: on a hit the
\* cached StepState is what lift goes on with
LiftLookup(i, address) ==
    /\ emus[i].live
    /\ emus[i].phase = "idle"
    /\ emus[i].steps < MaxLiftSteps
    /\ emus' = [emus EXCEPT ![i] =
                   IF address \in DOMAIN cache
                   THEN [@ EXCEPT !.phase = "lifted", !.address = address, !.hit = TRUE,
                                  !.lifted = CacheGet(cache, address)]
                   ELSE [@ EXCEPT !.phase = "looked", !.address = address, !.hit = FALSE]]
    /\ UNCHANGED cache
    /\ LiftOthers

\* lift after a miss: view the bytes, lift them, insert under the write lock; a
\* state error ends the step
LiftInsert(i) ==
    /\ emus[i].phase = "looked"
    /\ \E view \in {ViewValuesFrom(emus[i].state, emus[i].address)} :
          IF ~view.ok
          THEN /\ emus' = [emus EXCEPT ![i].phase = "idle", ![i].steps = @ + 1,
                                       ![i].kind = "Err", ![i].next = 0]
               /\ UNCHANGED cache
          ELSE \E step_state \in {StepStateFrom(LiftPCode(emus[i].address, view.out))} :
                  /\ cache' = CacheInsert(cache, emus[i].address, step_state)
                  /\ emus' = [emus EXCEPT ![i].phase = "lifted", ![i].lifted = step_state]
    /\ LiftOthers

\* the rest of lift (the hooks, the program counter) and of Machine::step over
\* the StepState lift returned
LiftStep(i) ==
    /\ emus[i].phase = "lifted"
    /\ \E r \in {MachineStep([state |-> emus[i].state, hooks |-> emus[i].hooks, log |-> <<>>],
                              emus[i].lifted.pcode, ProgramCounter, FALSE, MaxOperand)} :
          emus' = [emus EXCEPT
                      ![i].state = r.ctx.state,
                      ![i].step_state = [emus[i].lifted EXCEPT !.position = r.position],
                      ![i].phase = "idle",
                      ![i].steps = @ + 1,
                      ![i].kind = r.kind,
                      ![i].next = r.address,
                      ![i].held = [a \in LiftAddrs |-> @[a] \cup {ByteAt(r.ctx.state, a)}]]
    /\ UNCHANGED cache
    /\ LiftOthers

NextLift ==
    \/ ForkEmu
    \/ \E i \in Instances, address \in StepAddrs : LiftLookup(i, address)
    \/ \E i \in Instances : LiftInsert(i)
    \/ \E i \in Instances : LiftStep(i)

SpecLift == InitLift /\ [][NextLift]_vars

\* instance i looks an address up in this step and finds it cached
LiftHit(i, a) ==
    /\ emus[i].phase = "idle"
    /\ emus'[i].phase = "lifted"
    /\ emus'[i].address = a
    /\ a \in DOMAIN cache

\* C12: a lift of an address that is already cached, whatever steps were made
\* since it was cached, goes on with a StepState equal to the cached one (the
\* address, the length, the operations, position 0), and the cache entry of the
\* address stays as it is; no step of a machine changes an entry either
C12_LiftIdempotent ==
    [][/\ \A i \in Instances, a \in LiftAddrs :
              LiftHit(i, a) => /\ emus'[i].lifted = cache[a]
                               /\ emus'[i].lifted.position = 0
                               /\ emus'[i].lifted.pcode.address = a
                               /\ cache' = cache
       /\ \A a \in DOMAIN cache :
              cache'[a] # cache[a] =>
                  \E i \in Instances : emus[i].phase = "looked" /\ emus[i].address = a]_vars

\* an instance has stepped over the instruction, which moved the cursor of the
\* machine's step state, and lifts the same address again
C12_Witness ==
    \E i \in Instances :
        /\ emus[i].phase = "lifted"
        /\ emus[i].hit
        /\ emus[i].steps > 0
        /\ emus[i].step_state.pcode.address = emus[i].address
        /\ emus[i].step_state.position > 0

\* a StepState as the lifter makes it for some bytes at the address
Complete(step_state, a) ==
    \E op \in Opcodes : step_state = StepStateFrom(LiftPCode(a, <<op>>))

\* both instances lift the address a, which neither found cached, from the same bytes
BothLifted(a) ==
    /\ \A i \in Instances :
          /\ emus[i].live
          /\ emus[i].phase = "lifted"
          /\ ~emus[i].hit
          /\ emus[i].address = a
    /\ ByteAt(emus[1].state, a) = ByteAt(emus[2].state, a)

\* C17: every entry of the shared cache, and so every entry a lookup observes, is
\* a complete StepState; when two instances lift the same uncached address with
\* the same bytes, in any interleaving, both lifts give equal StepStates and the
\* cache holds one entry for the address, equal to them
C17_ConcurrentLift ==
    /\ \A a \in DOMAIN cache : Complete(cache[a], a)
    /\ \A i \in Instances : emus[i].phase = "lifted" => Complete(emus[i].lifted, emus[i].address)
    /\ \A a \in LiftAddrs :
          BothLifted(a) => /\ emus[1].lifted = emus[2].lifted
                           /\ a \in DOMAIN cache
                           /\ cache[a] = emus[1].lifted

\* both instances missed the same address and both have inserted
C17_Witness == \E a \in LiftAddrs : BothLifted(a)

\* C18: after the fork the instances execute independently: the instruction an
\* instance lifts and steps over is the translation of bytes its own memory has
\* held at the address, never of bytes only the other instance wrote
C18_Independent ==
    \A i \in Instances :
        (emus[i].live /\ emus[i].phase = "lifted") =>
            \E op \in emus[i].held[emus[i].address] :
                emus[i].lifted = StepStateFrom(LiftPCode(emus[i].address, <<op>>))

\* the entries where a write of an Operand::Constant was attempted
ConstantWrites ==
    {i \in 1..Len(Trace) :
        Trace[i].ev \in {"write", "set_operand"} /\ Trace[i].operand.kind = "Constant"}

\* the position of the operation dispatched last
LastPosition ==
    Trace[CHOOSE i \in 1..Len(Trace) :
              /\ Trace[i].ev = "dispatch"
              /\ \A j \in (i + 1)..Len(Trace) : Trace[j].ev # "dispatch"].operand.value

\* the state the step leaves when it stops before the operation at a position
StateBefore(position) ==
    MachineStep([state |-> stepRes.pre, hooks |-> machine.hooks, log |-> <<>>],
                [stepRes.pcode EXCEPT !.operations = SubSeq(@, 1, position)],
                ProgramCounter, machine.ignore_errors, MaxOperand).ctx.state

\* C13: a step that attempts to write an Operand::Constant, as the destination
\* of a Copy or a Load or as the flipped condition of a CBranch, aborts with a
\* panic at that write, with ignore_errors set or not, and leaves memory,
\* registers and temporaries as they were before the operation
C13_ConstantWriteAborts ==
    (Stepped /\ ConstantWrites # {}) =>
        /\ stepRes.kind = "Panic"
        /\ ConstantWrites = {Len(Trace)}
        /\ Trace[Len(Trace)].ret = "error"
        /\ machine.state = StateBefore(LastPosition)

\* a Copy into a register followed by a Copy into a constant, errors ignored
C13_Witness ==
    /\ Stepped /\ ConstantWrites # {}
    /\ machine.ignore_errors
    /\ LastPosition = 1
    /\ stepRes.pcode.operations[2].op = "Copy"
    /\ StateRead(machine.state, CondReg).bytes = <<3>>

\* the entries where the dispatch of an operation returned an Err
Failures == {i \in 1..Len(Trace) : Trace[i].ev = "error"}

\* the operations dispatched after entry i, in order
Later(i) == SelectSeq(SubSeq(Trace, i + 1, Len(Trace)), LAMBDA e : e.ev = "dispatch")

\* after the failure at entry i the cursor moved as for Branch::Next: the next
\* operation dispatched is the following one, or the failed one was the last
\* and the step returned Branch(fallthrough)
Swallowed(i) ==
    IF Trace[i].operand.value + 1 < Len(stepRes.pcode.operations)
    THEN /\ Later(i) # <<>>
         /\ Later(i)[1].operand.value = Trace[i].operand.value + 1
    ELSE /\ Later(i) = <<>>
         /\ stepRes.kind = "Branch"
         /\ stepRes.address = Fallthrough(stepRes.pcode)

\* C14 as stated: with ignore_errors set, no failure raised while dispatching an
\* operation ends the step: the step returns no error and does not abort, and
\* after each failure the cursor advances as for Next
C14_IgnoreSwallowsAny ==
    (Stepped /\ machine.ignore_errors) =>
        /\ stepRes.kind \notin {"Err", "Panic"}
        /\ \A i \in Failures : Swallowed(i)

\* C14, amended: with ignore_errors set, every Err returned by the dispatch of an
\* operation is swallowed: the step does not return it, and the cursor advances
\* as for Next (the following operation is dispatched, or the step returns
\* Branch(fallthrough) when the failed one was the last); a panic, as of a write
\* to an Operand::Constant, still aborts the step
C14_IgnoreSwallowsErr ==
    (Stepped /\ machine.ignore_errors) =>
        /\ stepRes.kind # "Err"
        /\ \A i \in Failures : Swallowed(i)
        /\ stepRes.kind = "Panic" => ConstantWrites # {}

\* with ignore_errors set, a failed operation in the middle of an instruction
\* was followed by the next one, and a failed last operation by Branch(fallthrough)
C14_Witness ==
    /\ Stepped /\ machine.ignore_errors
    /\ \E i \in Failures : Later(i) # <<>>
    /\ \E i \in Failures : Later(i) = <<>> /\ stepRes.kind = "Branch"

\* the entries that close an operand write whose first attempt failed with a
\* memory error
FailedWrites ==
    {i \in 1..Len(Trace) :
        /\ Trace[i].ev = "write"
        /\ Trace[i].ret \in {"skipped", "retried", "error"}
        /\ Trace[i].operand.kind = "Address"}

\* the number of hooks registered
HookCount == Len(machine.hooks)

\* the entry before entry i where hook h's invalid-memory-access callback fired
InvalidAt(i, h) == (i - HookCount) + (h - 1)

\* before entry i every hook's invalid-memory-access callback fired once, in
\* registration order
EachHookOnce(i) ==
    /\ i > HookCount + 1
    /\ \A h \in Registered :
          /\ Trace[InvalidAt(i, h)].ev = "invalid_memory_access"
          /\ Trace[InvalidAt(i, h)].hook = h
          /\ Trace[InvalidAt(i, h)].operand = Trace[i].operand
    /\ Trace[InvalidAt(i, 0)].ev # "invalid_memory_access"

\* a hook returned Skip; a hook signalled state_changed
AnySkip(i) == \E h \in Registered : Trace[InvalidAt(i, h)].ret = "Skip"

AnyChanged == \E h \in Registered : machine.hooks[h].invalid \in {"Changed", "Map"}

\* the write hooks fire after entry i as after a successful write
GoesOn(i) == i < Len(Trace) /\ Trace[i + 1].ev = "operand_write"

\* the operation returns the error after entry i
Propagates(i) == i < Len(Trace) /\ Trace[i + 1].ev = "error"

\* C20 as stated: after a failed operand write every hook's invalid-memory-access
\* callback is invoked once, in registration order; if any hook returns Skip the
\* op goes on as if the write had succeeded and the write stores no byte; if no
\* hook returns Skip and none signals state_changed the original error propagates
C20_SkipStoresNothing ==
    Stepped =>
        \A i \in FailedWrites :
            /\ EachHookOnce(i)
            /\ AnySkip(i) => (Trace[i].ret = "skipped" /\ GoesOn(i))
            /\ (~AnySkip(i) /\ ~AnyChanged) => (Trace[i].ret = "error" /\ Propagates(i))

\* C20, amended: after a failed operand write every hook's invalid-memory-access
\* callback is invoked once, in registration order; if a hook signals
\* state_changed the write is retried, and a retry that succeeds stores the
\* bytes even when another hook returned Skip; if a hook returned Skip and the
\* write was not retried, or the retry failed, the op goes on as if the write had
\* succeeded and no byte is stored; if no hook returns Skip and none signals
\* state_changed the original error propagates
C20_SkipUnlessRetried ==
    Stepped =>
        \A i \in FailedWrites :
            /\ EachHookOnce(i)
            /\ AnySkip(i) => (Trace[i].ret \in {"skipped", "retried"} /\ GoesOn(i))
            /\ Trace[i].ret = "retried" => AnyChanged
            /\ (AnySkip(i) /\ ~AnyChanged) => Trace[i].ret = "skipped"
            /\ Trace[i].ret = "skipped" =>
                   ~StateRead(machine.state, Trace[i].operand).ok
            /\ (~AnySkip(i) /\ ~AnyChanged) => (Trace[i].ret = "error" /\ Propagates(i))

\* a Skip hook after a hook that only observes: the write to the unmapped
\* address was skipped, the address is still unmapped and the step went on
C20_Witness ==
    /\ Stepped
    /\ HookCount = 2
    /\ machine.hooks[1].invalid = "Pass" /\ machine.hooks[2].invalid = "Skip"
    /\ \E i \in FailedWrites : Trace[i].ret = "skipped" /\ GoesOn(i)
    /\ stepRes.kind = "Branch"

(***************************************************************************)
(* fuguex-machine: Bound (types.rs) and Machine::step_until (machine.rs)   *)
(* SpecUntil: step_until(start, Steps(n)) and step_until(start,            *)
(* AddressReachCountOrSteps(t, N, S)) over code that falls through, loops, *)
(* halts in a hook or fails                                                *)
(***************************************************************************)

\* the largest step bound
MaxBound == 4

\* Bound::Steps(steps)
Steps(n) == [kind |-> "Steps", steps |-> n]

\* the largest reach count
MaxReach == 2

\* Bound::AddressReachCountOrSteps(address, addr_reach_count, steps)
AddressReachCountOrSteps(address, count, n) ==
    [kind |-> "AddressReachCountOrSteps", address |-> address, addr_reach_count |-> count,
     steps |-> n]

\* n.checked_sub(1).unwrap_or(0)
CheckedSubOne(n) == IF n >= 1 THEN n - 1 ELSE 0

\* Bound::deplete that leaves the bound as it is
BoundDepleteNot(bound, address) == bound

\* Bound::deplete that counts every address as the target
BoundDepleteAnyAddress(bound, address) ==
    IF bound.kind = "Steps" THEN Steps(CheckedSubOne(bound.steps))
    ELSE AddressReachCountOrSteps(bound.address, CheckedSubOne(bound.addr_reach_count),
                                  CheckedSubOne(bound.steps))

\* Bound::deplete(self, address)
BoundDeplete(bound, address) ==
    IF bound.kind = "Steps" THEN Steps(CheckedSubOne(bound.steps))
    ELSE AddressReachCountOrSteps(
             bound.address,
             IF address = bound.address THEN CheckedSubOne(bound.addr_reach_count)
             ELSE bound.addr_reach_count,
             CheckedSubOne(bound.steps))

\* Bound::reached(&self, address)
BoundReached(bound, address) ==
    IF bound.kind = "Steps" THEN bound.steps = 0
    ELSE bound.addr_reach_count = 0 \/ bound.steps = 0

\* what the second instruction does
Layouts == {"copy", "cbranch", "fault", "loop"}

\* the lifted instruction at an address: every instruction is a Copy but the
\* second, which the layout chooses
CodeAt(layout, address) ==
    PCode(address, InsnLen,
          CASE layout = "cbranch" /\ address = CodeA + InsnLen ->
                  <<PCodeOp("CBranch", CondReg, Operand("Address", Target, 1))>>
            [] layout = "fault" /\ address = CodeA + InsnLen ->
                  <<PCodeOp("Copy", Operand("Address", Unmapped, 1), CondTmp)>>
            [] layout = "loop" /\ address = CodeA + InsnLen ->
                  <<PCodeOp("Branch", NoOperand, Operand("Address", CodeA, 1))>>
            [] OTHER -> <<PCodeOp("Copy", Const(1, 1), CondTmp)>>)

\* Machine::new_with(interpreter, ignore_errors); step_until has not been called
InitUntil ==
    /\ FlatIdle /\ ClIdle /\ CsIdle /\ ForkIdle /\ StepIdle /\ BranchIdle /\ LiftIdle /\ PagedIdle /\ RegistryIdle
    /\ \E layout \in Layouts, ignore_errors \in BOOLEAN,
          hooks \in {<<>>, <<[Observer EXCEPT !.cbranch = "Halt"]>>} :
          runner = [state |-> PCodeNew(PagedFromParts(
                                  {SegmentStatic(0, StepMemSize - 1, "ram", 0)},
                                  FlatNew(StepMemSize)), StepRegSize, StepTmpSize),
                    hooks |-> hooks, layout |-> layout,
                    ignore_errors |-> ignore_errors]
    /\ until = [status |-> "idle", n |-> 0, bound |-> Steps(0), location |-> 0,
                performed |-> 0, branches |-> 0, outcome |-> "none",
                count |-> 0, visits |-> 0]

\* Machine::step_until(start, Bound::steps(n)) up to the loop
UntilCall(n) ==
    /\ until.status = "idle"
    /\ until' = [until EXCEPT !.status = "running", !.n = n, !.bound = Steps(n),
                              !.location = CodeA]
    /\ UNCHANGED runner
    /\ UntilOthers

\* the targets of a reach count: the first and the second instruction, and an
\* address the code never comes to
ReachTargets == {CodeA, CodeA + InsnLen, Target}

\* Machine::step_until(start, Bound::address_reach_count_or_steps(t, N, S)) up
\* to the loop
UntilCallReach(t, count, n) ==
    /\ until.status = "idle"
    /\ until' = [until EXCEPT !.status = "running", !.n = n, !.count = count,
                              !.bound = AddressReachCountOrSteps(t, count, n),
                              !.location = CodeA]
    /\ UNCHANGED runner
    /\ UntilOthers

\* one turn of the loop of step_until: the bound is reached and step_until
\* returns Reached, or it is depleted and the machine steps; Branch goes round
\* again, anything else is returned (an Err without the bound)
UntilLoop ==
    /\ until.status = "running"
    /\ IF BoundReached(until.bound, until.location)
       THEN /\ until' = [until EXCEPT !.status = "returned", !.outcome = "Reached"]
            /\ UNCHANGED runner
       ELSE \E r \in {MachineStep([state |-> runner.state, hooks |-> runner.hooks, log |-> <<>>],
                                  CodeAt(runner.layout, until.location), ProgramCounter,
                                  runner.ignore_errors, MaxOperand)} :
               /\ runner' = [runner EXCEPT !.state = r.ctx.state]
               /\ until' = [until EXCEPT
                               !.bound = BoundDeplete(@, until.location),
                               !.performed = @ + 1,
                               !.visits = IF until.bound.kind = "AddressReachCountOrSteps"
                                             /\ until.location = until.bound.address
                                          THEN @ + 1 ELSE @,
                               !.branches = IF r.kind = "Branch" THEN @ + 1 ELSE @,
                               !.location = IF r.kind = "Branch" THEN r.address ELSE @,
                               !.status = IF r.kind = "Branch" THEN "running" ELSE "returned",
                               !.outcome = r.kind]
    /\ UntilOthers

NextUntil ==
    \/ \E n \in 0..MaxBound : UntilCall(n)
    \/ \E t \in ReachTargets, count \in 0..MaxReach, n \in 0..MaxBound : UntilCallReach(t, count, n)
    \/ UntilLoop

\* a turn of the loop is taken whenever step_until is running
SpecUntil == InitUntil /\ [][NextUntil]_vars /\ WF_vars(UntilLoop)

\* step is called only while the bound is not reached, and each call depletes
\* the bound by one; Reached is returned after exactly n steps that all yielded
\* Branch, with no step left; another outcome is returned at once, with the bound
\* depleted by the steps made
UntilCounts ==
    until.bound.kind = "Steps" =>
    /\ until.performed <= until.n
    /\ until.status # "idle" => until.bound = Steps(until.n - until.performed)
    /\ until.status = "running" => until.branches = until.performed
    /\ (until.status = "returned" /\ until.outcome = "Reached")
           => /\ until.performed = until.n
              /\ until.branches = until.n
              /\ until.bound = Steps(0)
    /\ (until.status = "returned" /\ until.outcome # "Reached")
           => /\ until.branches = until.performed - 1
              /\ until.outcome # "Branch"

\* C15: step_until(start, Steps(n)) calls step only while the bound is not
\* reached: n steps that all yield Branch end in Reached with no step left (no
\* step at all for n = 0), a step with another outcome ends the call at once with
\* the bound depleted by the steps made, and every call returns
C15_StepUntil == [](UntilCounts) /\ (until.status = "running" ~> until.status = "returned")

\* a call with the largest bound over code that loops returned Reached
C15_Witness ==
    /\ until.status = "returned" /\ until.outcome = "Reached"
    /\ until.n = MaxBound /\ until.performed = MaxBound
    /\ runner.layout = "loop"

\* the bound of a call with a reach count steps down with the turns of the
\* loop: one step each turn, one reach each turn that starts at the target,
\* never below zero; the loop goes on only while both counters are positive,
\* and Reached is returned when one of them is used up
ReachCounts ==
    until.bound.kind = "AddressReachCountOrSteps" =>
    /\ until.bound.steps = until.n - until.performed
    /\ until.bound.addr_reach_count = until.count - until.visits
    /\ until.bound.steps >= 0 /\ until.bound.addr_reach_count >= 0
    /\ until.status = "running" => until.branches = until.performed
    /\ (until.status = "returned" /\ until.outcome = "Reached")
           => /\ until.visits = until.count \/ until.performed = until.n
              /\ until.branches = until.performed
    /\ (until.status = "returned" /\ until.outcome # "Reached")
           => /\ until.branches = until.performed - 1
              /\ until.outcome # "Branch"

\* a turn of the loop of a call with a reach count that does not return takes
\* one step from the bound, and one reach exactly when it starts at the target
ReachTurn ==
    (/\ until.bound.kind = "AddressReachCountOrSteps"
     /\ until.status = "running"
     /\ until'.performed = until.performed + 1)
        => /\ until.bound.steps > 0 /\ until.bound.addr_reach_count > 0
           /\ until'.bound.steps = until.bound.steps - 1
           /\ until'.bound.addr_reach_count =
                  IF until.location = until.bound.address
                  THEN until.bound.addr_reach_count - 1
                  ELSE until.bound.addr_reach_count
           /\ until'.bound.address = until.bound.address

\* C25: with bound AddressReachCountOrSteps(t, N, S), step_until keeps stepping
\* (while its steps yield Branch) until a turn of its loop has started at t N
\* times or S steps have been made, whichever happens first, and then returns
\* Reached; every turn takes one from the step count, and one from the reach
\* count exactly when the current address is t; neither counter goes below
\* zero; every call returns
C25_ReachCountOrSteps ==
    /\ [](ReachCounts)
    /\ [][ReachTurn]_vars
    /\ (until.status = "running" ~> until.status = "returned")

\* a call over code that loops started a turn at the target for the second
\* time with a step to spare and returned Reached
C25_Witness ==
    /\ until.bound.kind = "AddressReachCountOrSteps"
    /\ until.status = "returned" /\ until.outcome = "Reached"
    /\ runner.layout = "loop"
    /\ until.count = MaxReach /\ until.visits = MaxReach
    /\ until.bound.address = CodeA
    /\ until.bound.steps > 0

(***************************************************************************)
(* fuguex-state/src/paged.rs: the faults reported by PagedState            *)
(* SpecPaged: accesses to a Static and a Mapping segment, some of whose    *)
(* bytes have lost a permission                                            *)
(***************************************************************************)

\* first address and length of the Static segment (backed from offset 0)
PgBase == 16

PgSize == 8

\* first address and length of the Mapping segment
PgHeapBase == 48

PgHeapSize == 8

\* accesses and permission edits made in one run
MaxPagedOps == 3

\* addresses accessed: in the Static segment, past it, in the Mapping segment
PgAddrs == {PgBase, PgBase + 3, PgBase + PgSize - 1, PgBase + PgSize,
            PgHeapBase, PgHeapBase + 1, PgHeapBase + 3}

\* an error value that carries an address and a size
Fault(err, address, size) == [err |-> err, address |-> address, size |-> size]

NoFault == Fault("none", 0, 0)

\* paged.rs Error::backing: the flat error with base added to its address
ErrorBacking(base, e) == [e EXCEPT !.address = @ + base]

\* the error of PagedState::get_values / view_values / view_values_mut /
\* set_values: with_flat(_mut) reports the requested address itself; an error of
\* the closure is the flat state's error, which names the translated address,
\* passed through Error::backing with the closure's own address argument
PagedFault(mem, address, op, bytes) ==
    IF SegmentsFind(mem, address) = {} THEN Fault("UnmappedAddress", address, Len(bytes))
    ELSE Only({
        IF address + Len(bytes) - 1 > g.hi THEN Fault("OverlappedAccess", address, Len(bytes))
        ELSE IF g.kind = "Mapping"
        THEN Only({
                IF ~t.ok THEN Fault(t.err, address, Len(bytes))
                ELSE Only({
                        IF rm.ok THEN NoFault
                        ELSE ErrorBacking(t.ret, Fault(rm.err, t.ret, Len(bytes)))
                        : rm \in {FlatClosure(op, g.heap.backing, t.ret, bytes)} })
                : t \in {TranslateChecked(g.lo, g.heap, address, Len(bytes))} })
        ELSE Only({
                Only({
                    IF rs.ok THEN NoFault
                    ELSE ErrorBacking(off, Fault(rs.err, off, Len(bytes)))
                    : rs \in {FlatClosure(op, mem.inner, off, bytes)} })
                : off \in {(address - g.lo) + g.offset} })
        : g \in {CHOOSE x \in SegmentsFind(mem, address) : TRUE} })

\* PagedState::from_parts with a Static segment, then PagedState::mapping
InitPaged ==
    /\ FlatIdle /\ ClIdle /\ CsIdle /\ ForkIdle /\ StepIdle /\ BranchIdle /\ LiftIdle /\ RegistryIdle
    /\ UntilIdle /\ RegistryIdle
    /\ paged = PagedMapping(PagedFromParts(
                    {SegmentStatic(PgBase, PgBase + PgSize - 1, "ram", 0)},
                    FlatNew(PgSize)), "heap", PgHeapBase, PgHeapSize).st
    /\ pagedRes = [op |-> "new", address |-> 0, size |-> 0, ok |-> TRUE, fault |-> NoFault,
                   ops |-> 0, out |-> <<>>]

\* State::set_values / get_values / view_values / view_values_mut on the
\* PagedState
PagedAccess(op, address, bytes) ==
    /\ pagedRes.ops < MaxPagedOps
    /\ \E r \in {PagedWithFlatMut(paged, address, op, bytes)} :
          /\ paged' = r.st
          /\ pagedRes' = [op |-> op, address |-> address, size |-> Len(bytes), ok |-> r.ok,
                          fault |-> PagedFault(paged, address, op, bytes),
                          ops |-> pagedRes.ops + 1, out |-> r.out]
    /\ PagedOthers

\* inner_mut().permissions_mut().clear_byte on the flat state behind the
\* Static segment
PagedProtect(offset, access) ==
    /\ pagedRes.ops < MaxPagedOps
    /\ paged' = [paged EXCEPT !.inner.permissions = ClearByte(@, offset, access)]
    /\ pagedRes' = [op |-> "protect", address |-> offset, size |-> 1, ok |-> TRUE,
                    fault |-> NoFault, ops |-> pagedRes.ops + 1, out |-> <<>>]
    /\ PagedOthers

\* mapping_for_mut(address) and ChunkState::allocate
PagedHeapAllocate(size) ==
    /\ pagedRes.ops < MaxPagedOps
    /\ \E r \in {PagedAllocate(paged, PgHeapBase, size)} :
          /\ paged' = r.st
          /\ pagedRes' = [op |-> "allocate", address |-> PgHeapBase, size |-> size,
                          ok |-> r.ok, fault |-> NoFault, ops |-> pagedRes.ops + 1,
                          out |-> <<>>]
    /\ PagedOthers

NextPaged ==
    \/ \E op \in {"set", "get", "view", "view_mut"}, address \in PgAddrs,
          bytes \in ByteSeqs({1, 2}) : PagedAccess(op, address, bytes)
    \/ \E offset \in {0, 3}, access \in {"Read", "Write"} : PagedProtect(offset, access)
    \/ \E size \in {2} : PagedHeapAllocate(size)

SpecPaged == InitPaged /\ [][NextPaged]_vars

\* the last call was an access and it failed
PagedFaulted ==
    /\ pagedRes.op \in {"set", "get", "view", "view_mut"}
    /\ ~pagedRes.ok

\* C16: a fault reported for an access through the PagedState names the
\* address at which the caller requested the access and the requested size
C16_FaultAddress ==
    PagedFaulted =>
        /\ pagedRes.fault.err = "none" <=> pagedRes.ok
        /\ pagedRes.fault.address = pagedRes.address
        /\ pagedRes.fault.size = pagedRes.size

(***************************************************************************)
(* fuguex-concrete/src/interpreter.rs: add_hook and find_hook              *)
(* SpecRegistry: hooks of several concrete types added under chosen names  *)
(***************************************************************************)

\* hooks added to one context
MaxAdded == 3

\* insertion names and the concrete types of the hooks
HookNames == {"trace", "cov", "fix"}

HookTypes == {"Tracer", "Patcher"}

\* a boxed hook: its concrete type and which add_hook call added it; name is
\* the name it was inserted with
Boxed(type, serial, name) == [type |-> type, serial |-> serial, name |-> name]

\* Option<&H>
FoundHook(h) == [some |-> TRUE, hook |-> h]

NoHook == [some |-> FALSE, hook |-> Boxed("none", 0, "none")]

\* ConcreteContext::add_hook: hook_names.insert(name, hooks.len()), hooks.push
RegistryAddHook(reg, name, type) ==
    [hook_names |-> [n \in DOMAIN reg.hook_names \cup {name} |->
                        IF n = name THEN Len(reg.hooks) ELSE reg.hook_names[n]],
     hooks |-> Append(reg.hooks, Boxed(type, Len(reg.hooks), name))]

\* ConcreteContext::find_hook::<H>(name): the index of the name, then
\* downcast_ref::<H>() of the hook at that index
FindHook(reg, name, type) ==
    IF name \notin DOMAIN reg.hook_names THEN NoHook
    ELSE Only({ IF h.type = type THEN FoundHook(h) ELSE NoHook
                : h \in {reg.hooks[reg.hook_names[name] + 1]} })

\* ConcreteContext::new: no hooks, no names
InitRegistry ==
    /\ FlatIdle /\ ClIdle /\ CsIdle /\ ForkIdle /\ StepIdle /\ BranchIdle /\ LiftIdle
    /\ UntilIdle /\ PagedIdle
    /\ registry = [hook_names |-> <<>>, hooks |-> <<>>]

\* add_hook(name, hook) with a hook of the given concrete type
DoAddHook(name, type) ==
    /\ Len(registry.hooks) < MaxAdded
    /\ registry' = RegistryAddHook(registry, name, type)
    /\ RegistryOthers

NextRegistry ==
    \E name \in HookNames, type \in HookTypes : DoAddHook(name, type)

SpecRegistry == InitRegistry /\ [][NextRegistry]_vars

\* C21: after any sequence of add_hook calls every registered hook is found,
\* with a downcast to its concrete type, under the name it was inserted with,
\* and no two registered hooks were inserted under one name
C21_NamesUnique ==
    /\ \A i \in 1..Len(registry.hooks) :
          FindHook(registry, registry.hooks[i].name, registry.hooks[i].type)
              = FoundHook(registry.hooks[i])
    /\ \A i, j \in 1..Len(registry.hooks) :
          registry.hooks[i].name = registry.hooks[j].name => i = j

(***************************************************************************)
(* SpecArena: longer runs of allocate / reallocate / deallocate on one     *)
(* ChunkState, without accesses                                            *)
(***************************************************************************)
\* bytes of heap backing
ArenaSize == 10

\* calls made in one run
MaxArenaOps == 6

ArenaAddrs == HeapBase..(HeapBase + ArenaSize)

InitArena ==
    /\ FlatIdle /\ ClIdle /\ ForkIdle /\ StepIdle /\ BranchIdle /\ LiftIdle /\ UntilIdle
    /\ PagedIdle /\ RegistryIdle
    /\ cs = ChunkStateNew(ArenaSize)
    /\ scn = 0
    /\ csRes = [op |-> "new", ok |-> TRUE, err |-> "none", ret |-> HeapBase, panic |-> FALSE]
    /\ csOps = 0

\* a panic unwinds out of the heap: no further call is made on it
ArenaLive == csOps < MaxArenaOps /\ ~csRes.panic

\* ChunkState::allocate
ArenaAllocate(n) == ArenaLive /\ CsStep("allocate", ChunkAllocate(HeapBase, cs, n))

\* ChunkState::reallocate: regions.find(address), then the rest of the call
ArenaReallocate(addr, n) ==
    /\ ArenaLive
    /\ LET found == FindAll(cs.regions, addr, addr)
       IN  IF found = {}
           THEN CsStep("reallocate", HeapErr(cs, "ReallocateUnmanaged"))
           ELSE \E region \in found :
                    CsStep("reallocate", ChunkReallocateAt(HeapBase, cs, region, addr, n))

\* ChunkState::deallocate: regions.find(address), then the rest of the call
ArenaDeallocate(addr) ==
    /\ ArenaLive
    /\ LET found == FindAll(cs.regions, addr, addr)
       IN  IF found = {}
           THEN CsStep("deallocate", HeapErr(cs, "FreeUnmanaged"))
           ELSE \E region \in found :
                    CsStep("deallocate", ChunkDeallocateAt(HeapBase, cs, region, addr))

NextArena ==
    \/ \E n \in HeapSizes : ArenaAllocate(n)
    \/ \E addr \in ArenaAddrs, n \in HeapSizes : ArenaReallocate(addr, n)
    \/ \E addr \in ArenaAddrs : ArenaDeallocate(addr)

SpecArena == InitArena /\ [][NextArena]_vars

\* the bytes of a live allocation: its user bytes and its red-zone byte
Footprint(region) == region[1]..(region[2] + 1)

\* no two live allocations share a byte and each lies inside a heap of size
\* bytes
Disjoint(st, size) ==
    /\ \A r \in st.regions : Footprint(r) \subseteq HeapBase..(HeapBase + size - 1)
    /\ \A r, s \in st.regions : r # s => Footprint(r) \cap Footprint(s) = {}

\* C22: after any sequence of allocate, reallocate and deallocate calls no two
\* live allocations (user bytes plus red-zone byte) overlap, every live
\* allocation lies inside [base, base + N), and allocate never returns an
\* address inside an allocation that was live before the call
C22_NoOverlap ==
    [][~csRes'.panic =>
          /\ Disjoint(cs', ArenaSize)
          /\ (csRes'.op = "allocate" /\ csRes'.ok) =>
                \A r \in cs.regions : csRes'.ret \notin Footprint(r)]_vars

(***************************************************************************)
(* The hooks of a CBranch (fuguex-concrete/src/interpreter.rs, cbranch)    *)
(***************************************************************************)

\* the entries where a CBranch was dispatched
CBranches == {d \in 1..Len(Trace) : Trace[d].ev = "dispatch" /\ Trace[d].ret = "CBranch"}

\* the first registered hook whose cbranch callback returns Halt (0: none)
Halter ==
    IF \E h \in Registered : machine.hooks[h].cbranch = "Halt"
    THEN CHOOSE h \in Registered :
             /\ machine.hooks[h].cbranch = "Halt"
             /\ \A g \in 1..(h - 1) : machine.hooks[g].cbranch # "Halt"
    ELSE 0

FlipRequested == \E h \in Registered : machine.hooks[h].cbranch = "Flip"

\* the entries of the operation dispatched at entry d
Segment(d) ==
    {i \in (d + 1)..Len(Trace) : \A j \in (d + 1)..i : Trace[j].ev # "dispatch"}

SegmentOf(d, evs) == {i \in Segment(d) : Trace[i].ev \in evs}

\* the cbranch callbacks of the CBranch at d ran for hooks 1..n in that order
\* and for no other hook
CalledInOrder(d, n) ==
    /\ SegmentOf(d, {"cbranch"}) = (d + 1)..(d + n)
    /\ \A h \in 1..n : Trace[d + h].hook = h /\ Trace[d + h].ret = machine.hooks[h].cbranch

\* the step ended with Halt at the callback of the halting hook: nothing was
\* read or written after it, and the state is the one the CBranch found
HaltedAtOnce(d) ==
    /\ CalledInOrder(d, Halter)
    /\ Len(Trace) = d + Halter
    /\ stepRes.kind = "Halt"
    /\ machine.state = StateBefore(Trace[d].operand.value)

\* the condition of the CBranch at d, and the entry that read it
ConditionOf(d) == stepRes.pcode.operations[Trace[d].operand.value + 1].source

ConditionRead(d) == CHOOSE r \in SegmentOf(d, {"read"}) : TRUE

LastCBranch(d) == \A j \in (d + 1)..Len(Trace) : Trace[j].ev # "dispatch"

\* the CBranch at d stored the negation of the value it read, once
NegatedOnce(d) ==
    /\ Cardinality(SegmentOf(d, {"read"})) = 1
    /\ SegmentOf(d, {"set_operand"}) = {ConditionRead(d) + 1}
    /\ LET r == ConditionRead(d)
           nv == BoolIntoBytes(~BoolFromBytes(Trace[r].bytes), ConditionOf(d).size)
       IN  /\ Trace[r + 1].ret = "ok"
           /\ Trace[r + 1].bytes = nv
           /\ LastCBranch(d) => StateRead(machine.state, ConditionOf(d)).bytes = nv

\* C23 as stated: on CBranch the cbranch callbacks run in registration order;
\* the first Halt returns Halt at once, with no later hook invoked and the
\* condition neither read nor modified, even after a Flip; when no hook halts,
\* one or more Flips negate the condition exactly once at the end and the
\* negated value is written back, and with no Flip nothing is written
C23_HaltFirstFlipOnceAny ==
    Stepped =>
        \A d \in CBranches :
            IF Halter # 0 THEN HaltedAtOnce(d)
            ELSE /\ CalledInOrder(d, Len(machine.hooks))
                 /\ IF FlipRequested THEN NegatedOnce(d)
                    ELSE SegmentOf(d, {"set_operand"}) = {}

\* the CBranch at d read its condition from the state (not from a hook's value)
ReadFromState(d) ==
    /\ Cardinality(SegmentOf(d, {"read"})) = 1
    /\ Trace[ConditionRead(d)].ret \in {"ok", "retried"}

\* the CBranch at d attempted one write of the negated condition, which
\* panicked (a constant) or failed (memory that cannot be written)
NegationFailed(d) ==
    /\ SegmentOf(d, {"set_operand"}) = {ConditionRead(d) + 1}
    /\ Trace[ConditionRead(d) + 1].ret = "error"
    /\ IF ConditionOf(d).kind = "Constant" THEN stepRes.kind = "Panic"
       ELSE ConditionOf(d).kind = "Address" /\ Trace[ConditionRead(d)].ret = "value"

\* C23, amended: on CBranch the cbranch callbacks run in registration order;
\* the first Halt returns Halt at once, with no later hook invoked and the
\* condition neither read nor modified, even after a Flip; when no hook halts
\* and the condition could be read, one or more Flips negate it exactly once at
\* the end, and the negated value is written back when the condition was read
\* from a register, a temporary or memory, while for an Operand::Constant the
\* write panics and for a value supplied by a hook for unmapped memory it may
\* fail; when the condition cannot be read, or no hook returns Flip, nothing is
\* written
C23_HaltFirstFlipOnce ==
    Stepped =>
        \A d \in CBranches :
            IF Halter # 0 THEN HaltedAtOnce(d)
            ELSE /\ CalledInOrder(d, Len(machine.hooks))
                 /\ Cardinality(SegmentOf(d, {"read"})) = 1
                 /\ IF ~FlipRequested \/ Trace[ConditionRead(d)].ret \in {"error", "retry error"}
                    THEN SegmentOf(d, {"set_operand"}) = {}
                    ELSE IF ReadFromState(d) /\ ConditionOf(d).kind # "Constant"
                    THEN NegatedOnce(d)
                    ELSE NegatedOnce(d) \/ NegationFailed(d)

\* a step with a Flip hook registered before a Halt hook over a CBranch: the
\* step halted at the second callback
C23_Witness ==
    /\ Stepped /\ CBranches # {}
    /\ Len(machine.hooks) = 2
    /\ machine.hooks[1].cbranch = "Flip" /\ machine.hooks[2].cbranch = "Halt"
    /\ stepRes.kind = "Halt"
    /\ Trace[Len(Trace)].ev = "cbranch" /\ Trace[Len(Trace)].hook = 2

(***************************************************************************)
(* What ChunkState::reallocate and ChunkState::deallocate leave behind     *)
(***************************************************************************)

\* the n bytes stored from an address of the heap
HeapBytesAt(st, address, n) == [i \in 1..n |-> st.backing.backing[(address - HeapBase) + i - 1]]

LesserOf(a, b) == IF a <= b THEN a ELSE b

\* reallocate(addr, n) of the live allocation region succeeded: what the call
\* left behind
Reallocated(region, addr, n) ==
    LET m == region[2] - region[1] + 1
        new == csRes'.ret
    IN  /\ HeapBytesAt(cs', new, LesserOf(m, n)) = HeapBytesAt(cs, addr, LesserOf(m, n))
        /\ AllReadableAndWritable(cs'.backing.permissions, new - HeapBase, n)
        /\ cs'.regions = (cs.regions \ {region}) \cup {<<new, new + n - 1>>}
        /\ new # addr =>
               /\ \A b \in region[1]..region[2] :
                      ~AllWritable(cs'.backing.permissions, b - HeapBase, 1)
               /\ ~ChunkSetValues(HeapBase, cs', addr, <<0>>).ok

\* C26: after a successful reallocate(addr, n) of a live allocation of m bytes
\* the first min(m, n) bytes at the returned address equal the bytes at addr
\* before the call, all n bytes of the new allocation are readable and
\* writable, the region set holds [new, new+n-1] in place of the old region,
\* and if the allocation moved, the old region is no longer writable (a write
\* through the old address fails)
C26_ReallocateKeeps ==
    [][\A addr \in ArenaAddrs, n \in HeapSizes :
           \A region \in {r \in cs.regions : r[1] = addr} :
               (ArenaReallocate(addr, n) /\ csRes'.ok) => Reallocated(region, addr, n)]_vars

\* ChunkState::deallocate(address) on state st, regions.find included
ChunkDeallocate(st, addr) ==
    IF FindAll(st.regions, addr, addr) = {} THEN {HeapErr(st, "FreeUnmanaged")}
    ELSE {ChunkDeallocateAt(HeapBase, st, region, addr) : region \in FindAll(st.regions, addr, addr)}

\* deallocate(addr) of the live allocation region succeeded: what the call
\* left behind
Deallocated(region, addr) ==
    /\ \A b \in region[1]..region[2] : ~AllWritable(cs'.backing.permissions, b - HeapBase, 1)
    /\ cs'.regions = cs.regions \ {region}
    /\ \A b \in Footprint(region) : FreeAt(cs'.chunks, b - HeapBase)
    /\ \A r \in ChunkDeallocate(cs', addr) : ~r.ok

\* C28: deallocate(addr) succeeds if and only if addr is the base address of a
\* live allocation; any other address is rejected as FreeUnmanaged with the
\* state unchanged; after a successful call the freed range is not writable,
\* its region entry is gone, its chunk is Free, and a second deallocate(addr)
\* fails
C28_DeallocateBaseOnly ==
    [][\A addr \in ArenaAddrs :
           ArenaDeallocate(addr) =>
               /\ csRes'.ok <=> \E r \in cs.regions : r[1] = addr
               /\ ~csRes'.ok => csRes'.err = "FreeUnmanaged" /\ cs' = cs
               /\ csRes'.ok => \E region \in {r \in cs.regions : r[1] = addr} :
                                   Deallocated(region, addr)]_vars

\* the Taken chunks of a state, and the chunk a live region should have: its
\* offset and its size plus the red-zone byte
TakenChunks(st) == {st.chunks[k] : k \in {j \in 1..Len(st.chunks) : st.chunks[j].taken}}

ChunkOf(region) == ChunkTaken(region[1] - HeapBase, (region[2] - region[1] + 1) + 1)

\* C29: in every reachable ChunkState the Taken chunks and the live regions
\* correspond one-to-one: each live region [A, A+n-1] has exactly one Taken
\* chunk, with offset A - base and size n+1, and every Taken chunk belongs to
\* a live region
C29_ChunksMatchRegions ==
    ~csRes.panic =>
        /\ TakenChunks(cs) = {ChunkOf(region) : region \in cs.regions}
        /\ Cardinality({k \in 1..Len(cs.chunks) : cs.chunks[k].taken}) = Cardinality(cs.regions)

\* the offsets of the backing bytes that lie inside a live region
LiveOffsets(st) == UNION {{b - HeapBase : b \in r[1]..r[2]} : r \in st.regions}

\* C30: in every reachable ChunkState the backing permissions mirror the live
\* regions: a backing byte is writable if and only if it lies inside a live
\* region; every byte of a live allocation is readable and writable, and
\* red-zone bytes, freed bytes, bytes released by a shrinking reallocate and
\* never-allocated bytes are not writable
C30_WritableIffLive ==
    ~csRes.panic =>
        \A b \in 0..(HeapSize - 1) :
            /\ IsMarked(cs.backing.permissions, b, "Write") <=> b \in LiveOffsets(cs)
            /\ b \in LiveOffsets(cs) => IsMarked(cs.backing.permissions, b, "ReadWrite")

(***************************************************************************)
(* fuguex-state/src/paged.rs: PagedState::mapping                          *)
(* SpecSegments: mappings are added to a PagedState that holds one Static  *)
(* segment                                                                 *)
(***************************************************************************)

\* the addresses mappings are asked for lie in 0..SegSpan; the Static segment
\* takes SegStaticSize of them from SegStaticBase
SegSpan == 8

SegStaticBase == 3

SegStaticSize == 2

\* the largest mapping asked for, and the number of calls made
MaxMappingSize == 3

MaxMappings == 2

\* PagedState::from_parts with one Static segment
InitSegments ==
    /\ FlatIdle /\ ClIdle /\ CsIdle /\ ForkIdle /\ StepIdle /\ BranchIdle /\ LiftIdle
    /\ UntilIdle /\ RegistryIdle
    /\ paged = PagedFromParts(
                   {SegmentStatic(SegStaticBase, SegStaticBase + SegStaticSize - 1, "ram", 0)},
                   FlatNew(SegStaticSize))
    /\ pagedRes = [op |-> "new", address |-> 0, size |-> 0, ok |-> TRUE, fault |-> NoFault,
                   ops |-> 0, out |-> <<>>]

\* PagedState::mapping(name, base_address, size)
DoMapping(name, base, size) ==
    /\ pagedRes.ops < MaxMappings
    /\ \E r \in {PagedMapping(paged, name, base, size)} :
          /\ paged' = r.st
          /\ pagedRes' = [op |-> "mapping", address |-> base, size |-> size, ok |-> r.ok,
                          fault |-> IF r.ok THEN NoFault ELSE Fault(r.err, base, size),
                          ops |-> pagedRes.ops + 1, out |-> <<>>]
    /\ PagedOthers

NextSegments ==
    \E name \in {"heap", "stack"}, base \in 0..SegSpan, size \in 1..MaxMappingSize :
        DoMapping(name, base, size)

SpecSegments == InitSegments /\ [][NextSegments]_vars

\* an address of [base, base + size - 1] lies in a segment of mem
Occupied(mem, base, size) == \E a \in base..(base + size - 1) : SegmentsFind(mem, a) # {}

\* no address lies in two segments
SegmentsDisjoint(mem) ==
    \A g, o \in mem.segments : g # o => (g.lo..g.hi) \cap (o.lo..o.hi) = {}

\* a call of mapping(name, base, size) inserts the Mapping segment [base,
\* base + size - 1] over a fresh ChunkState exactly when the range is not
\* occupied, and otherwise fails with OverlappedMapping and changes nothing
MappingStep ==
    \A name \in {"heap", "stack"}, base \in 0..SegSpan, size \in 1..MaxMappingSize :
        DoMapping(name, base, size) =>
            /\ pagedRes'.ok <=> ~Occupied(paged, base, size)
            /\ ~pagedRes'.ok => /\ pagedRes'.fault = Fault("OverlappedMapping", base, size)
                                /\ paged' = paged
            /\ pagedRes'.ok =>
                   /\ paged'.inner = paged.inner
                   /\ paged.segments \subseteq paged'.segments
                   /\ \E g \in paged'.segments \ paged.segments :
                          /\ paged'.segments = paged.segments \cup {g}
                          /\ g.kind = "Mapping" /\ g.name = name
                          /\ g.lo = base /\ g.hi = base + size - 1
                          /\ g.heap = ChunkStateNew(size)

\* C31: mapping(name, base, size) inserts the new Mapping segment if and only
\* if [base, base+size-1] overlaps no existing segment; on overlap it yields
\* OverlappedMapping and leaves the segment map unchanged; after any sequence
\* of mapping calls the segment intervals are pairwise disjoint
C31_MappingDisjoint == [](SegmentsDisjoint(paged)) /\ [][MappingStep]_vars

\* a mapping that would reach into the Static segment, whose base is free,
\* was rejected after another mapping had been inserted
C31_Witness ==
    /\ pagedRes.op = "mapping" /\ ~pagedRes.ok
    /\ pagedRes.address < SegStaticBase
    /\ pagedRes.address + pagedRes.size - 1 >= SegStaticBase
    /\ SegmentsFind(paged, pagedRes.address) = {}
    /\ Cardinality(paged.segments) = 2

(***************************************************************************)
(* fuguex-state/src/paged.rs: with_flat / with_flat_mut                    *)
(* SpecRoute: accesses to two adjacent Static segments, the first backed   *)
(* after the second, and to a Mapping segment that follows them            *)
(***************************************************************************)

\* first address of the Static segment "rom", and the size of the two Static
\* segments; "ram" follows "rom" and the heap mapping follows "ram"
RtBase == 16

RtSize == 3

RtHeapSize == 5

\* accesses and allocations made in one run
MaxRouteOps == 3

RtRam == RtBase + RtSize

RtHeap == RtRam + RtSize

\* addresses accessed: below the segments, in each of them, at their last
\* bytes, and beyond the mapping
RtAddrs == {RtBase - 1, RtBase, RtRam - 1, RtRam, RtHeap - 1, RtHeap, RtHeap + 1,
            RtHeap + RtHeapSize}

\* PagedState::from_parts over a backing that holds "ram" at offset 0 and
\* "rom" at offset RtSize, then PagedState::mapping
InitRoute ==
    /\ FlatIdle /\ ClIdle /\ CsIdle /\ ForkIdle /\ StepIdle /\ BranchIdle /\ LiftIdle
    /\ UntilIdle /\ RegistryIdle
    /\ paged = PagedMapping(PagedFromParts(
                    {SegmentStatic(RtBase, RtRam - 1, "rom", RtSize),
                     SegmentStatic(RtRam, RtHeap - 1, "ram", 0)},
                    FlatFromVec([i \in 0..(2 * RtSize - 1) |-> 11 + i])),
                    "heap", RtHeap, RtHeapSize).st
    /\ pagedRes = [op |-> "new", address |-> 0, size |-> 0, ok |-> TRUE, fault |-> NoFault,
                   ops |-> 0, out |-> <<>>]

\* State::set_values / get_values / view_values / view_values_mut
RouteAccess(op, address, bytes) ==
    /\ pagedRes.ops < MaxRouteOps
    /\ PagedAccess(op, address, bytes)

\* mapping_for_mut(address) and ChunkState::allocate
RouteAllocate(size) ==
    /\ pagedRes.ops < MaxRouteOps
    /\ \E r \in {PagedAllocate(paged, RtHeap, size)} :
          /\ paged' = r.st
          /\ pagedRes' = [op |-> "allocate", address |-> RtHeap, size |-> size,
                          ok |-> r.ok, fault |-> NoFault, ops |-> pagedRes.ops + 1,
                          out |-> <<>>]
    /\ PagedOthers

NextRoute ==
    \/ \E op \in {"set", "get", "view", "view_mut"}, address \in RtAddrs,
          bytes \in ByteSeqs({1, 2}) : RouteAccess(op, address, bytes)
    \/ \E size \in {1, 2} : RouteAllocate(size)

SpecRoute == InitRoute /\ [][NextRoute]_vars

\* the bytes of a flat state from an offset on
BytesFrom(f, off, n) == [i \in 1..n |-> f.backing[off + i - 1]]

\* the flat state f became f2 by storing bytes at off
StoredAt(f, f2, off, bytes) ==
    /\ DOMAIN f2.backing = DOMAIN f.backing
    /\ \A k \in DOMAIN f.backing :
           f2.backing[k] = IF k \in off..(off + Len(bytes) - 1) THEN bytes[(k - off) + 1]
                           ELSE f.backing[k]
    /\ f2.permissions = f.permissions

\* what an access that went through to the flat state f at off did: a read
\* returned the bytes stored there and left f as it was, a write stored its
\* bytes there
Accessed(op, f, f2, off, bytes) ==
    IF op \in {"get", "view"}
    THEN pagedRes'.out = BytesFrom(f, off, Len(bytes)) /\ f2 = f
    ELSE StoredAt(f, f2, off, bytes)

\* the live regions of heap mapping g that [address, address + n - 1] touches
Touched(g, address, n) ==
    {r \in g.heap.regions : \E a \in address..(address + n - 1) : r[1] <= a /\ a <= r[2]}

\* the access an operation asks of the flat state it reaches
Needed(op) ==
    IF op \in {"get", "view"} THEN "Read" ELSE IF op = "set" THEN "Write" ELSE "ReadWrite"

\* the flat state f lets op through at [off, off + n - 1]: a heap's bytes
\* outside its live regions are not writable
Permitted(op, f, off, n) == AllMarked(f.permissions, off, n, Needed(op))

\* an access (address, n) is routed to the segment that encloses address
Routed(op, address, bytes) ==
    LET n == Len(bytes)
        found == {g \in paged.segments : address \in g.lo..g.hi}
    IN  IF found = {}
        THEN ~pagedRes'.ok /\ pagedRes'.fault.err = "UnmappedAddress" /\ paged' = paged
        ELSE /\ Cardinality(found) = 1
             /\ \A g \in found :
                   IF address + n - 1 > g.hi
                   THEN ~pagedRes'.ok /\ pagedRes'.fault.err = "OverlappedAccess"
                            /\ paged' = paged
                   ELSE IF g.kind = "Static"
                   THEN /\ pagedRes'.ok
                        /\ paged'.segments = paged.segments
                        /\ Accessed(op, paged.inner, paged'.inner,
                                    g.offset + (address - g.lo), bytes)
                   ELSE IF Cardinality(Touched(g, address, n)) # 1
                   THEN /\ ~pagedRes'.ok /\ paged' = paged
                        /\ pagedRes'.fault.err =
                               IF Touched(g, address, n) = {} THEN "AccessUnmanaged"
                               ELSE "HeapOverflow"
                   ELSE IF ~Permitted(op, g.heap.backing, address - g.lo, n)
                   THEN /\ ~pagedRes'.ok /\ paged' = paged
                        /\ pagedRes'.fault.err = "AccessViolation" \o Needed(op)
                   ELSE /\ pagedRes'.ok
                        /\ paged'.inner = paged.inner
                        /\ \E g2 \in paged'.segments :
                              /\ paged'.segments = (paged.segments \ {g}) \cup {g2}
                              /\ g2.lo = g.lo /\ g2.hi = g.hi /\ g2.kind = "Mapping"
                              /\ g2.heap.regions = g.heap.regions
                              /\ g2.heap.chunks = g.heap.chunks
                              /\ Accessed(op, g.heap.backing, g2.heap.backing,
                                          address - g.lo, bytes)

\* C32: every byte-level access (addr, n) goes to the unique segment that
\* encloses addr: with no such segment it yields UnmappedAddress; if [addr,
\* addr+n-1] escapes that segment's end it yields OverlappedAccess, even when
\* the following addresses belong to an adjacent segment; otherwise a Static
\* segment is accessed at backing offset offset + (addr - segment.start) and a
\* Mapping segment through its ChunkState's checked translation
C32_RoutedToSegment ==
    [][\A op \in {"set", "get", "view", "view_mut"}, address \in RtAddrs,
          bytes \in ByteSeqs({1, 2}) :
              (/\ pagedRes'.op = op /\ pagedRes'.address = address
               /\ pagedRes'.size = Len(bytes)
               /\ RouteAccess(op, address, bytes)) => Routed(op, address, bytes)]_vars

\* a two-byte read at the last byte of "rom" failed although "ram" follows,
\* after a write to "rom" had landed behind the bytes of "ram" in the backing
C32_Witness ==
    /\ pagedRes.op = "get" /\ ~pagedRes.ok
    /\ pagedRes.address = RtRam - 1 /\ pagedRes.size = 2
    /\ pagedRes.fault.err = "OverlappedAccess"
    /\ paged.inner.backing[RtSize] \in ByteVals

(***************************************************************************)
(* PagedState::restore: the segments kept and what they hold               *)
(***************************************************************************)
\* the interval of a segment
IntervalOf(g) == <<g.lo, g.hi>>

\* the segments of mem whose interval is the interval of a segment of other
WithCounterpart(mem, other) ==
    {g \in mem.segments : \E o \in other.segments : IntervalOf(o) = IntervalOf(g)}

\* Mapping segment g holds what o holds
SameHeap(g, o) ==
    /\ g.heap.chunks = o.heap.chunks
    /\ g.heap.regions = o.heap.regions
    /\ FlatContents(g.heap.backing) = FlatContents(o.heap.backing)

ChainSize == 66

\* forks, writes and restores made after the snapshot was taken
MaxChainOps == 4

\* where the writes go: the first block, across the block boundary, the
\* second block
ChainOffsets == {0, BLOCK_SIZE - 1, BLOCK_SIZE}

\* S holds 17 in every byte; parent is S, child the newest state of the chain
InitChain ==
    /\ FlatIdle /\ ClIdle /\ CsIdle /\ StepIdle /\ BranchIdle /\ LiftIdle /\ UntilIdle /\ PagedIdle /\ RegistryIdle
    /\ parent = FlatFromVec([i \in 0..(ChainSize - 1) |-> 17])
    /\ child = FlatFork(parent)
    /\ forkRes = [op |-> "fork", ok |-> TRUE, depth |-> 1, ops |-> 0, written |-> FALSE,
                  pre |-> child]

ChainStep(op, ok, c, depth, written) ==
    /\ forkRes.ops < MaxChainOps
    /\ parent' = parent
    /\ child' = c
    /\ forkRes' = [op |-> op, ok |-> ok, depth |-> depth, ops |-> forkRes.ops + 1,
                   written |-> written, pre |-> child]
    /\ ForkOthers

\* set_bytes on the newest state of the chain
ChainSet(off, n) ==
    LET r == FlatSetBytes(child, off, HeapBytes(n))
    IN  ChainStep("set", r.ok, r.st, forkRes.depth, forkRes.written \/ r.ok)

\* the newest state is forked; the fork becomes the newest state
ChainFork == ChainStep("fork", TRUE, FlatFork(child), forkRes.depth + 1, forkRes.written)

\* restore(S) on the newest state
ChainRestore == ChainStep("restore", TRUE, FlatRestore(child, parent), forkRes.depth, FALSE)

NextChain ==
    \/ \E off \in ChainOffsets, n \in {1, 2} : ChainSet(off, n)
    \/ ChainFork
    \/ ChainRestore

SpecChain == InitChain /\ [][NextChain]_vars

\* C34: for a snapshot S and a state X derived from S through a chain of one
\* or more forks, with writes made at any point along the chain, X.restore(S)
\* leaves X byte for byte equal to S: restoring works against every
\* fork-ancestor, not only against the state X was forked from
C34_RestoreFromAncestor ==
    forkRes.op = "restore" => child.backing = parent.backing

\* the blocks a dirty set has a bitmap bit for
BlocksOf(d) == {b \in 0..(BLOCK_WORD * Cardinality(DOMAIN d.bitsmap) - 1) : BlockIndex(b) \in DOMAIN d.bitsmap}

\* a block is in the index list exactly when its bitmap bit is set, and the
\* list holds no block twice
DirtyConsistent(d) ==
    /\ \A b \in BlocksOf(d) :
           (\E k \in DOMAIN d.indices : d.indices[k] = b)
               <=> BlockBit(b) \in d.bitsmap[BlockIndex(b)]
    /\ \A j, k \in DOMAIN d.indices : d.indices[j] = d.indices[k] => j = k

\* no block is dirty
DirtyEmpty(d) == d.indices = <<>> /\ \A w \in DOMAIN d.bitsmap : d.bitsmap[w] = {}

\* C40: the FlatState dirty set stays consistent and is emptied by restore:
\* at all times a block index is in the index list exactly when its bitmap bit
\* is set, with no duplicates, and after restore(other) returns the receiver's
\* dirty set is empty, so each restore copies only blocks written since the
\* previous fork or restore
C40_DirtyConsistentEmptied ==
    /\ DirtyConsistent(child.dirty)
    /\ forkRes.op = "restore" => DirtyEmpty(child.dirty)

(***************************************************************************)
(* fuguex-machine/src/machine.rs: Machine::step from a location            *)
(* SpecCursor: hooks are registered, ignore_errors is set, and the machine *)
(* steps over one lifted instruction from a position of its operations     *)
(***************************************************************************)
\* the positions a step is started at: inside, at the end of and past the
\* operations of the longest instruction
MaxStart == 3

\* the hooks registered: an observer, a hook that halts or flips a CBranch,
\* one that skips a failed access, one that stores into the operands read
CursorHooks ==
    { Observer, [Observer EXCEPT !.cbranch = "Halt"], [Observer EXCEPT !.cbranch = "Flip"],
      [Observer EXCEPT !.invalid = "Skip"], [Observer EXCEPT !.read = "Poke"] }

InitCursor ==
    /\ FlatIdle /\ ClIdle /\ CsIdle /\ ForkIdle /\ BranchIdle /\ LiftIdle /\ UntilIdle /\ PagedIdle /\ RegistryIdle
    /\ machine = [state |-> PCodeNew(PagedFromParts(
                                {SegmentStatic(0, StepMemSize - 1, "ram", 0)},
                                FlatNew(StepMemSize)), StepRegSize, StepTmpSize),
                  hooks |-> <<>>, ignore_errors |-> FALSE, steps |-> 0]
    /\ stepRes = [op |-> "new", pcode |-> Insn(<<>>), start |-> 0, kind |-> "none",
                  address |-> 0, err |-> "none", log |-> <<>>, pre |-> machine.state]

\* Machine::step(Location::new(address, position))
StepAt(pcode, position) ==
    /\ machine.steps < MaxSteps
    /\ \E r \in {MachineStepAt([state |-> machine.state, hooks |-> machine.hooks, log |-> <<>>],
                                pcode, position, ProgramCounter, machine.ignore_errors,
                                MaxOperand)} :
           /\ machine' = [machine EXCEPT !.state = r.ctx.state, !.steps = @ + 1]
           /\ stepRes' = [op |-> "step", pcode |-> pcode, start |-> position, kind |-> r.kind,
                          address |-> r.address, err |-> r.err, log |-> r.ctx.log,
                          pre |-> machine.state]
    /\ StepOthers

NextCursor ==
    \/ \E hook \in CursorHooks : AddHook(hook)
    \/ \E flag \in BOOLEAN : IgnoreErrors(flag)
    \/ \E pcode \in Programs, position \in 0..MaxStart : StepAt(pcode, position)

SpecCursor == InitCursor /\ [][NextCursor]_vars

\* the entries of the trace where an op was dispatched, the position of the
\* cursor there and the op dispatched
Dispatches == {i \in 1..Len(Trace) : Trace[i].ev = "dispatch"}

PositionAt(i) == Trace[i].operand.value

OpAt(i) == stepRes.pcode.operations[PositionAt(i) + 1]

LastDispatch(i) == \A j \in Dispatches : j <= i

\* the dispatch that follows dispatch i
FollowedBy(i, j) == j \in Dispatches /\ i < j /\ \A k \in Dispatches : k <= i \/ k >= j

\* the outcome of the op dispatched at i was Halt: a hook_cbranch asked for it
\* before the next dispatch
HaltAt(i) ==
    \E k \in (i + 1)..Len(Trace) :
        /\ Trace[k].ev = "cbranch" /\ Trace[k].ret = "Halt"
        /\ \A j \in Dispatches : j <= i \/ j > k

\* the op dispatched at i returned an Err that ignore_errors let pass
ErrorAt(i) ==
    \E k \in (i + 1)..Len(Trace) :
        /\ Trace[k].ev = "error" /\ Trace[k].operand.value = PositionAt(i)
        /\ \A j \in Dispatches : j <= i \/ j > k

\* the offsets the cursor may move by after the op dispatched at i: one (a
\* Branch moves by one only when it failed), or the constant destination of a
\* Branch or CBranch
LocalMoves(i) ==
    (IF OpAt(i).op # "Branch" \/ ErrorAt(i) THEN {1} ELSE {})
        \cup (IF OpAt(i).op \in {"Branch", "CBranch"} /\ OpAt(i).destination.kind = "Constant"
              THEN {OpAt(i).destination.value} ELSE {})

\* the op dispatched at i may resolve to Global(a): a Branch or CBranch to an
\* address, an IBranch or Return, or a move of the cursor past the last op
GlobalAt(i, a) ==
    \/ OpAt(i).op \in {"Branch", "CBranch"} /\ OpAt(i).destination.kind = "Address"
            /\ OpAt(i).destination.value = a
    \/ OpAt(i).op \in {"IBranch", "Return"}
    \/ a = Fallthrough(stepRes.pcode)
            /\ \E d \in LocalMoves(i) : PositionAt(i) + d >= Len(stepRes.pcode.operations)

\* C35: Machine.step(location) dispatches the micro-ops of the instruction at
\* location.address() in cursor order starting at location.position(); it
\* returns Halt at the first op whose outcome is Halt, Branch(a) at the first
\* op whose branch resolves to Global(a), no later op of the instruction being
\* dispatched in either case, and Branch(address + length) when the cursor
\* falls off the end
C35_CursorOrder ==
    (Stepped /\ stepRes.kind \in {"Halt", "Branch"}) =>
        /\ Dispatches = {} =>
               /\ stepRes.start >= Len(stepRes.pcode.operations)
               /\ stepRes.kind = "Branch" /\ stepRes.address = Fallthrough(stepRes.pcode)
        /\ \A i \in Dispatches :
               /\ (\A j \in Dispatches : j >= i) => PositionAt(i) = stepRes.start
               /\ PositionAt(i) < Len(stepRes.pcode.operations)
               /\ \A j \in Dispatches : FollowedBy(i, j) =>
                      /\ ~HaltAt(i)
                      /\ PositionAt(j) - PositionAt(i) \in LocalMoves(i)
               /\ LastDispatch(i) =>
                      /\ stepRes.kind = "Halt" <=> HaltAt(i)
                      /\ stepRes.kind = "Branch" => GlobalAt(i, stepRes.address)

\* a step from position 1 met a CBranch there that a hook flipped: the branch
\* to the target ended the step and the op at position 2 was not dispatched
C35_Witness ==
    /\ Stepped /\ stepRes.start = 1
    /\ stepRes.kind = "Branch" /\ stepRes.address = Target
    /\ Len(stepRes.pcode.operations) = 3
    /\ \E i \in Dispatches : PositionAt(i) = 1 /\ OpAt(i).op = "CBranch"
    /\ Cardinality(Dispatches) = 1

(***************************************************************************)
(* lift and the bytes the instance holds                                   *)
(***************************************************************************)
\* what lifting the bytes instance i holds at address a now gives
LiftingOf(i, a) == StepStateFrom(LiftPCode(a, ViewValuesFrom(emus[i].state, a).out))

\* C36: the StepState returned by lift(a) is always the lifting of the bytes
\* currently stored at a in the calling instance's memory, also when a was
\* lifted earlier and those bytes have since been overwritten, and when
\* another instance sharing the cache, holding different bytes at a, lifted a
\* first
C36_LiftsCurrentBytes ==
    \A i \in Instances :
        (emus[i].live /\ emus[i].phase = "lifted"
            /\ ViewValuesFrom(emus[i].state, emus[i].address).ok) =>
                emus[i].lifted = LiftingOf(i, emus[i].address)

(***************************************************************************)
(* operand hooks and the access they surround                              *)
(***************************************************************************)
\* the reads and the stores the interpreter made, and the entries of the
\* operand-write hooks
ReadEntries == {k \in 1..Len(Trace) : Trace[k].ev = "read" /\ Trace[k].hook = 0}

StoreEntries == {k \in 1..Len(Trace) : Trace[k].ev = "write" /\ Trace[k].hook = 0}

WriteHookEntries == {k \in 1..Len(Trace) : Trace[k].ev = "operand_write"}

\* the operand-read callbacks of all hooks ran, in registration order, before
\* the read at k, with nothing but invalid-access callbacks in between
ReadFanBefore(k) ==
    \E j \in 1..k :
        /\ j + Len(machine.hooks) <= k
        /\ \A h \in Registered :
               /\ Trace[j + h - 1].ev = "operand_read" /\ Trace[j + h - 1].hook = h
               /\ Trace[j + h - 1].operand = Trace[k].operand
        /\ \A n \in (j + Len(machine.hooks))..(k - 1) : Trace[n].ev = "invalid_memory_access"

\* the read at k consumed what a hook stored into the operand
ConsumedPoke(k) ==
    (/\ Trace[k].ret = "ok" /\ Trace[k].operand.kind # "Constant"
     /\ \E h \in Registered : machine.hooks[h].read = "Poke")
        => Trace[k].bytes = PokeBytes(Trace[k].operand.size)

\* the store the operand-write callback at k belongs to
StoreOf(k, j) ==
    /\ j \in StoreEntries /\ j < k
    /\ \A n \in (j + 1)..(k - 1) : Trace[n].ev = "operand_write"
    /\ Trace[j].operand = Trace[k].operand

\* the callback at k was called with the bytes of store j in the state
SawStored(k, j) == Trace[j].ret \in {"ok", "retried"} /\ Trace[k].bytes = Trace[j].bytes

\* C37 as stated: every operand read's hook fan-out completes before the
\* value is read and consumed, so a modification made by an operand-read hook
\* to the operand's storage is the value the op consumes, and every operand
\* write's hook fan-out starts only after the bytes have been stored, so
\* operand-write hooks observe the stored value
C37_HooksAroundAccessAny ==
    Stepped =>
        /\ \A k \in ReadEntries : ReadFanBefore(k) /\ ConsumedPoke(k)
        /\ \A k \in WriteHookEntries : \E j \in StoreEntries : StoreOf(k, j) /\ SawStored(k, j)

\* C37: every operand read's hook fan-out completes before the value is read
\* and consumed, so a modification made by an operand-read hook to the
\* operand's storage is the value the op consumes; every operand write's hook
\* fan-out starts only after the write was made, and the hooks observe the
\* stored value unless an invalid-access hook had the failed write skipped, in
\* which case they are called although nothing was stored
C37_HooksAroundAccess ==
    Stepped =>
        /\ \A k \in ReadEntries : ReadFanBefore(k) /\ ConsumedPoke(k)
        /\ \A k \in WriteHookEntries : \E j \in StoreEntries :
               /\ StoreOf(k, j)
               /\ Trace[j].ret # "skipped" => SawStored(k, j)

\* a hook stored into the register an op was about to read: the op consumed
\* the hook's bytes and copied them, and the operand-write callback that
\* followed saw them in the destination
C37_Witness ==
    /\ Stepped
    /\ \E h \in Registered : machine.hooks[h].read = "Poke"
    /\ \E k \in ReadEntries :
           /\ Trace[k].operand = DataReg /\ Trace[k].bytes = PokeBytes(2)
           /\ Seen(stepRes.pre, DataReg) # PokeBytes(2)
    /\ \E k \in WriteHookEntries :
           Trace[k].operand = DataTmp /\ Trace[k].bytes = PokeBytes(2)

(***************************************************************************)
(* fuguex-state/src/pcode.rs: reading an Operand::Constant                 *)
(* SpecConstant: a constant of a chosen value and size is read under a     *)
(* chosen byte order                                                       *)
(***************************************************************************)
\* the sizes read: up to the eight bytes of a u64 and beyond, below the
\* operand size ceiling of sixteen
MaxConstantSize == 10

\* the values read: zero, one byte, bytes that differ, the largest value the
\* checker's integers hold
ConstantInputs == {0, 1, 255, 258, 16909060, 2147483647}

\* machine holds the operand and the byte order, stepRes the last read
InitConstant ==
    /\ FlatIdle /\ ClIdle /\ CsIdle /\ ForkIdle /\ BranchIdle /\ LiftIdle /\ UntilIdle /\ PagedIdle /\ RegistryIdle
    /\ \E value \in ConstantInputs, size \in 1..MaxConstantSize, big \in BOOLEAN :
           machine = [operand |-> Const(value, size), big |-> big]
    /\ stepRes = [op |-> "new", ok |-> TRUE, bytes |-> <<>>]

\* with_operand_values(&Operand::Constant { value, size }, |values| values.to_vec())
ReadConstant ==
    /\ stepRes.op = "new"
    /\ \E r \in {ConstantValues(machine.operand.value, machine.operand.size, machine.big)} :
           stepRes' = [op |-> "read", ok |-> r.ok, bytes |-> r.bytes]
    /\ UNCHANGED machine
    /\ StepOthers

NextConstant == ReadConstant

SpecConstant == InitConstant /\ [][NextConstant]_vars

\* digit i (0 the low-order one) of value written in base 256
Digit(value, i) == IF i >= 4 THEN 0 ELSE (value \div (256 ^ i)) % 256

\* C39: reading Operand::Constant{value, size} yields exactly size bytes
\* holding value in the configured byte order, zero-extended to size, for
\* every size from 1 up to the operand size ceiling (sizes above 8 bytes
\* included): big-endian places the high-order byte at index 0, little-endian
\* places the low-order byte at index 0
C39_ConstantBytes ==
    stepRes.op = "read" =>
        /\ stepRes.ok
        /\ Len(stepRes.bytes) = machine.operand.size
        /\ \A i \in 1..machine.operand.size :
               stepRes.bytes[i] =
                   IF machine.big THEN Digit(machine.operand.value, machine.operand.size - i)
                   ELSE Digit(machine.operand.value, i - 1)

\* ---------------------------------------------------------------------------
\* The lock of the shared lift cache: translator_cache is an
\* Arc<parking_lot::RwLock<Map<Address, StepState>>> that fork() clones by
\* reference, so every instance of a fork family locks the same RwLock.
\* A thread drives instances of the family: it lifts on one of them, and it may
\* keep the guard that lifted_cache() of another one returned (the guard
\* borrows the instance it came from, not its siblings).
\* cache = [map, readers, writer, wanting], emus = the threads.
\* ---------------------------------------------------------------------------

LockThreads == 2

MaxLockLifts == 2

Threads == 1..LockThreads

LockAddrs == {16, 32}

\* RwLock::read blocks while a writer holds the lock or is parked for it
CanRead == cache.writer = 0 /\ cache.wanting = {}

\* RwLock::write blocks until no reader and no writer holds the lock
CanWrite == cache.writer = 0 /\ cache.readers = {}

InitLock ==
    /\ FlatIdle /\ ClIdle /\ CsIdle /\ ForkIdle /\ StepIdle /\ BranchIdle /\ UntilIdle /\ PagedIdle /\ RegistryIdle
    /\ cache = [map |-> {}, readers |-> {}, writer |-> 0, wanting |-> {}]
    /\ emus = [t \in Threads |-> [phase |-> "idle", guard |-> FALSE, address |-> 0, lifts |-> 0]]

\* lift(address) is entered: `let rlock = self.translator_cache.read();` is called
LiftCall(t, address) ==
    /\ emus[t].phase = "idle"
    /\ emus[t].lifts < MaxLockLifts
    /\ emus' = [emus EXCEPT ![t].phase = "rwait", ![t].address = address]
    /\ UNCHANGED cache
    /\ LiftOthers

\* the read() of lift returns: the shared lock is held
LiftAcquireRead(t) ==
    /\ emus[t].phase = "rwait"
    /\ CanRead
    /\ cache' = [cache EXCEPT !.readers = @ \cup {<<t, "lookup">>}]
    /\ emus' = [emus EXCEPT ![t].phase = "reading"]
    /\ LiftOthers

\* `let cached = rlock.get(&address).map(|e| e.clone()); drop(rlock);`
LiftGet(t) ==
    /\ emus[t].phase = "reading"
    /\ cache' = [cache EXCEPT !.readers = @ \ {<<t, "lookup">>}]
    /\ emus' = [emus EXCEPT ![t].phase = IF emus[t].address \in cache.map THEN "hooks" ELSE "lifting"]
    /\ LiftOthers

\* the miss path: view_values_from, lift_pcode, then `self.translator_cache.write()` is called
LiftTranslate(t) ==
    /\ emus[t].phase = "lifting"
    /\ cache' = [cache EXCEPT !.wanting = @ \cup {t}]
    /\ emus' = [emus EXCEPT ![t].phase = "wwait"]
    /\ LiftOthers

\* the write() of lift returns: the exclusive lock is held
LiftAcquireWrite(t) ==
    /\ emus[t].phase = "wwait"
    /\ CanWrite
    /\ cache' = [cache EXCEPT !.writer = t, !.wanting = @ \ {t}]
    /\ emus' = [emus EXCEPT ![t].phase = "inserting"]
    /\ LiftOthers

\* `.insert(address, step_state.clone());` and the temporary guard is dropped
LiftStore(t) ==
    /\ emus[t].phase = "inserting"
    /\ cache' = [cache EXCEPT !.map = @ \cup {emus[t].address}, !.writer = 0]
    /\ emus' = [emus EXCEPT ![t].phase = "hooks"]
    /\ LiftOthers

\* the hook_architectural_step loop, and lift returns
LiftHooks(t) ==
    /\ emus[t].phase = "hooks"
    /\ emus' = [emus EXCEPT ![t].phase = "idle", ![t].lifts = @ + 1]
    /\ UNCHANGED cache
    /\ LiftOthers

\* lifted_cache() is called: `self.translator_cache.read()`
LiftedCacheCall(t) ==
    /\ emus[t].phase = "idle"
    /\ ~emus[t].guard
    /\ emus' = [emus EXCEPT ![t].phase = "gwait"]
    /\ UNCHANGED cache
    /\ LiftOthers

\* lifted_cache() returns the RwLockReadGuard to its caller
LiftedCache(t) ==
    /\ emus[t].phase = "gwait"
    /\ CanRead
    /\ cache' = [cache EXCEPT !.readers = @ \cup {<<t, "guard">>}]
    /\ emus' = [emus EXCEPT ![t].phase = "idle", ![t].guard = TRUE]
    /\ LiftOthers

\* the caller drops the guard it got from lifted_cache()
DropGuard(t) ==
    /\ emus[t].phase = "idle"
    /\ emus[t].guard
    /\ cache' = [cache EXCEPT !.readers = @ \ {<<t, "guard">>}]
    /\ emus' = [emus EXCEPT ![t].guard = FALSE]
    /\ LiftOthers

ThreadStep(t) ==
    \/ \E address \in LockAddrs : LiftCall(t, address)
    \/ LiftAcquireRead(t)
    \/ LiftGet(t)
    \/ LiftTranslate(t)
    \/ LiftAcquireWrite(t)
    \/ LiftStore(t)
    \/ LiftHooks(t)
    \/ LiftedCacheCall(t)
    \/ LiftedCache(t)
    \/ DropGuard(t)

NextLock == \E t \in Threads : ThreadStep(t)

\* every thread that can run is eventually run
SpecLock == InitLock /\ [][NextLock]_vars /\ \A t \in Threads : WF_vars(ThreadStep(t))

\* the cache locks thread t holds
HeldBy(t) == {h \in cache.readers : h[1] = t} \cup (IF cache.writer = t THEN {<<t, "insert">>} ELSE {})

\* thread t is parked in read() or write()
Parked(t) ==
    \/ emus[t].phase \in {"rwait", "gwait"} /\ ~CanRead
    \/ emus[t].phase = "wwait" /\ ~CanWrite

\* the shared lock is held for the lookup of a lift only, the exclusive one for its insert only
HeldForOneAccess ==
    \A t \in Threads :
        /\ HeldBy(t) \subseteq {<<t, "lookup">>, <<t, "insert">>}
        /\ <<t, "lookup">> \in HeldBy(t) => emus[t].phase = "reading"
        /\ <<t, "insert">> \in HeldBy(t) => emus[t].phase = "inserting"

\* no lock is held by a thread that asks for the exclusive lock, views memory, lifts or runs hooks
ReleasedOutside ==
    \A t \in Threads : emus[t].phase \in {"lifting", "wwait", "hooks"} => HeldBy(t) = {}

\* a thread is parked and every thread holding the lock is parked as well
Deadlocked ==
    /\ \E t \in Threads : Parked(t)
    /\ \A t \in Threads : HeldBy(t) # {} => Parked(t)
    /\ \E t \in Threads : HeldBy(t) # {}

\* a lift that waits for the lock gets it
LiftAcquires ==
    \A t \in Threads :
        /\ (emus[t].phase = "rwait") ~> (emus[t].phase = "reading")
        /\ (emus[t].phase = "wwait") ~> (emus[t].phase = "inserting")

\* C38: the lock of the lift cache is held for one lookup (shared) or one insert
\* (exclusive) only: the shared lock is released before the exclusive one is
\* requested and nothing is held while memory is viewed, the lifter runs or hooks
\* run; so the threads of a fork family never deadlock on it, and with every
\* thread scheduled fairly each lift that waits for the lock acquires it.
C38_LockHeldBriefly == [](HeldForOneAccess /\ ReleasedOutside /\ ~Deadlocked) /\ LiftAcquires

====
